---- MODULE Spec2Model ----
(***************************************************************************)
(* Twelve-tone row analyzer: ToneRow (validation, matrix construction,     *)
(* derived rows, transposition, row enumeration), the hexachordal /        *)
(* tetrachordal / trichordal combinatoriality detectors and the assembly   *)
(* of their results into strings.                                          *)
(*                                                                         *)
(* numpy arrays are modelled as TLA+ sequences: Python index k is TLA+     *)
(* index k+1, and the slice x[a:b] is the index range a+1..b.              *)
(***************************************************************************)
EXTENDS Integers, Sequences, FiniteSets, TLC

\* ------------------------------------------------------------------ bounds
\* number of neighbour swaps applied to a base row to obtain an input row
MaxSwaps == 1
\* intervals tried by transpose_row are -MaxInterval..MaxInterval
MaxInterval == 13
\* number of transpose_row calls made on one caller array
MaxTransposes == 1
\* number of element writes a caller makes into arrays the accessors returned
MaxWrites == 1
\* number of next() calls made on a second generator
MaxOtherNexts == 3
\* largest batchSize passed to populate_combinatorials_table
MaxBatchSize == 3
\* largest small limitForTesting passed to populate_combinatorials_table
MaxSmallLimit == 3
\* number of next() calls followed on the first generator from where it stands
MaxNexts == 3
\* number of loop iterations of populate_combinatorials_table followed from
\* where the loop stands
MaxIterations == 4
\* how far outside 0..11 the values of an invalid input array go
OutOfRange == 1

\* ------------------------------------------------------- program constants
\* number of pitch classes: length of a row, side of the matrix, modulus
NumPitchClasses == 12
\* largest interval size accepted by transpose_row (and -IntervalLimit the smallest)
IntervalLimit == 11

\* ----------------------------------------------------------------- helpers
\* x[::-1]
Reverse(s) == [i \in 1..Len(s) |-> s[Len(s) + 1 - i]]

\* set(x[a:b]) with a, b Python slice bounds
SliceSet(s, a, b) == {s[i] : i \in (a + 1)..b}

\* matrix[:, col_index]
Column(m, col_index) == [i \in 1..Len(m) |-> m[i][col_index + 1]]

\* --------------------------------------------------------------- ToneRow
\* faulty variant: the length test is left out
is_valid_tonerow_SetOnly(toneRow) ==
    {toneRow[i] : i \in 1..Len(toneRow)} = 0..(NumPitchClasses - 1)

is_valid_tonerow(toneRow) ==
    LET has_correct_length == Len(toneRow) = NumPitchClasses
        contains_all_pitch_classes ==
            {toneRow[i] : i \in 1..Len(toneRow)} = 0..(NumPitchClasses - 1)
    IN  has_correct_length /\ contains_all_pitch_classes

\* faulty variant: the transposed rows are not reduced mod 12
twelvetone_matrix_NoMod(primeRow) ==
    LET inversion_row == [i \in 1..NumPitchClasses |-> (0 - primeRow[i]) % 12]
        transposition_interval(i) == (inversion_row[i] - inversion_row[1]) % 12
    IN  [i \in 1..NumPitchClasses |->
            IF i = 1
            THEN primeRow
            ELSE [j \in 1..NumPitchClasses |->
                     primeRow[j] + transposition_interval(i)]]

\* faulty variant: the interval is the inversion note itself, not its distance
\* from the first inversion note
twelvetone_matrix_FromInversion(primeRow) ==
    LET inversion_row == [i \in 1..NumPitchClasses |-> (0 - primeRow[i]) % 12]
        transposition_interval(i) == inversion_row[i] % 12
    IN  [i \in 1..NumPitchClasses |->
            IF i = 1
            THEN primeRow
            ELSE [j \in 1..NumPitchClasses |->
                     (primeRow[j] + transposition_interval(i)) % 12]]

\* faulty variant: the operands of the interval subtraction are exchanged
twelvetone_matrix_Swapped(primeRow) ==
    LET inversion_row == [i \in 1..NumPitchClasses |-> (0 - primeRow[i]) % 12]
        transposition_interval(i) == (inversion_row[1] - inversion_row[i]) % 12
    IN  [i \in 1..NumPitchClasses |->
            IF i = 1
            THEN primeRow
            ELSE [j \in 1..NumPitchClasses |->
                     (primeRow[j] + transposition_interval(i)) % 12]]

\* faulty variant: the interval is taken from the previous inversion note,
\* not from the first
twelvetone_matrix_AdjacentInterval(primeRow) ==
    LET inversion_row == [i \in 1..NumPitchClasses |-> (0 - primeRow[i]) % 12]
        transposition_interval(i) == (inversion_row[i] - inversion_row[i - 1]) % 12
    IN  [i \in 1..NumPitchClasses |->
            IF i = 1
            THEN primeRow
            ELSE [j \in 1..NumPitchClasses |->
                     (primeRow[j] + transposition_interval(i)) % 12]]

twelvetone_matrix(primeRow) ==
    LET inversion_row == [i \in 1..NumPitchClasses |-> (0 - primeRow[i]) % 12]
        transposition_interval(i) == (inversion_row[i] - inversion_row[1]) % 12
    IN  [i \in 1..NumPitchClasses |->
            IF i = 1
            THEN primeRow
            ELSE [j \in 1..NumPitchClasses |->
                     (primeRow[j] + transposition_interval(i)) % 12]]

prime_row(m) == m[1]

inversion(m) == Column(m, 0)

retrograde(m) == Reverse(m[1])

\* faulty variant: the column is not reversed
retrograde_inversion_Unreversed(m) == Column(m, 0)

retrograde_inversion(m) == Reverse(Column(m, 0))

\* applies ToneRow.__init__ to primeRow: the new object's matrix, or the error
ToneRow_init(primeRow) ==
    IF ~is_valid_tonerow(primeRow)
    THEN [err |-> "provided tone row is not valid", matrix |-> <<>>]
    ELSE [err |-> "none", matrix |-> twelvetone_matrix(primeRow)]

\* faulty variant: the final reduction mod 12 is left out
transpose_row_NoFinalMod(primeRow, intervalSize) ==
    IF ~is_valid_tonerow(primeRow)
    THEN [err |-> "provided tone row is not valid", ret |-> <<>>, arg |-> primeRow]
    ELSE IF intervalSize < 0 - IntervalLimit \/ intervalSize > IntervalLimit
    THEN [err |-> "Interval size must be between -11 and 11",
          ret |-> <<>>, arg |-> primeRow]
    ELSE LET converted_interval_size == (intervalSize + 12) % 12
             transposed_tonerow ==
                 [j \in 1..Len(primeRow) |-> primeRow[j] + converted_interval_size]
         IN  [err |-> "none", ret |-> transposed_tonerow, arg |-> transposed_tonerow]

\* faulty variant: the interval is checked before the row
transpose_row_RangeFirst(primeRow, intervalSize) ==
    IF intervalSize < 0 - IntervalLimit \/ intervalSize > IntervalLimit
    THEN [err |-> "Interval size must be between -11 and 11",
          ret |-> <<>>, arg |-> primeRow]
    ELSE IF ~is_valid_tonerow(primeRow)
    THEN [err |-> "provided tone row is not valid", ret |-> <<>>, arg |-> primeRow]
    ELSE LET converted_interval_size == (intervalSize + 12) % 12
             transposed_tonerow ==
                 [j \in 1..Len(primeRow) |->
                     (primeRow[j] + converted_interval_size) % 12]
         IN  [err |-> "none", ret |-> transposed_tonerow, arg |-> transposed_tonerow]

\* result of transpose_row: the error raised (or "none"), the returned array
\* and the contents of the argument array when the call ends (the arithmetic
\* is done in place on the argument, which is also the object returned)
transpose_row(primeRow, intervalSize) ==
    IF ~is_valid_tonerow(primeRow)
    THEN [err |-> "provided tone row is not valid", ret |-> <<>>, arg |-> primeRow]
    ELSE IF intervalSize < 0 - IntervalLimit \/ intervalSize > IntervalLimit
    THEN [err |-> "Interval size must be between -11 and 11",
          ret |-> <<>>, arg |-> primeRow]
    ELSE LET converted_interval_size == (intervalSize + 12) % 12
             transposed_tonerow ==
                 [j \in 1..Len(primeRow) |->
                     (primeRow[j] + converted_interval_size) % 12]
         IN  [err |-> "none", ret |-> transposed_tonerow, arg |-> transposed_tonerow]

\* ---------------------------------------------------------------- labels
DigitChars == <<"0", "1", "2", "3", "4", "5", "6", "7", "8", "9">>

\* str(n) for n >= 0, as a sequence of characters
RECURSIVE DecimalString(_)
DecimalString(n) ==
    IF n < 10
    THEN <<DigitChars[n + 1]>>
    ELSE Append(DecimalString(n \div 10), DigitChars[(n % 10) + 1])

\* faulty variant: the level is padded to two digits
FormatLabel_Padded(prefix, level) ==
    IF level < 10
    THEN prefix \o <<"0">> \o DecimalString(level)
    ELSE prefix \o DecimalString(level)

\* f"{prefix}{level}", as a sequence of characters
FormatLabel(prefix, level) == prefix \o DecimalString(level)

\* indices scanned by `for ... in matrix` / `for col_index in range(len(matrix))`
ScanOrder == [i \in 1..NumPitchClasses |-> i]

\* the loop `for ...: if not keep: continue; combinatorials_list.append(label)`:
\* keep is the set of scanned indices that reach the append, label[i] the label
\* appended for index i
Collect(keep, label) ==
    LET kept == SelectSeq(ScanOrder, LAMBDA i : i \in keep)
    IN  [k \in 1..Len(kept) |-> label[kept[k]]]

\* faulty variant: the difference is taken the other way round
Level_Reversed(first_note_current, first_note_reference) ==
    ((first_note_reference - first_note_current) + 12) % 12

\* (first_note_current - first_note_reference + 12) % 12
Level(first_note_current, first_note_reference) ==
    ((first_note_current - first_note_reference) + 12) % 12

\* list.remove(x): drops the first element equal to x
ListRemove(list, x) ==
    LET k == CHOOSE i \in 1..Len(list) :
                 list[i] = x /\ \A h \in 1..(i - 1) : list[h] # x
    IN  SubSeq(list, 1, k - 1) \o SubSeq(list, k + 1, Len(list))

\* `for s in list: if x == s: ... break` finds a match
ListHas(list, x) == \E i \in 1..Len(list) : list[i] = x

\* ----------------------------------------------- CombinatorialHexachords
\* faulty variant: the candidate's hexachord is cut one note short
Hexachords_prime_combinatorials_ShortSlice(m) ==
    LET first_note_p0 == prime_row(m)[1]
        first_hexachord_p0 == SliceSet(m[1], 0, 6)
        transposition_level(i) == Level(m[i][1], first_note_p0)
        keep(i) == /\ SliceSet(m[i], 0, 5) \cap first_hexachord_p0 = {}
                   /\ transposition_level(i) # 0
    IN  Collect({i \in 1..NumPitchClasses : keep(i)},
                [i \in 1..NumPitchClasses |-> FormatLabel(<<"P">>, transposition_level(i))])

Hexachords_prime_combinatorials(m) ==
    LET first_note_p0 == prime_row(m)[1]
        first_hexachord_p0 == SliceSet(m[1], 0, 6)
        transposition_level(i) == Level(m[i][1], first_note_p0)
        keep(i) == /\ SliceSet(m[i], 0, 6) \cap first_hexachord_p0 = {}
                   /\ transposition_level(i) # 0
    IN  Collect({i \in 1..NumPitchClasses : keep(i)},
                [i \in 1..NumPitchClasses |-> FormatLabel(<<"P">>, transposition_level(i))])

\* faulty variant: level 0 is not skipped
Hexachords_retrograde_combinatorials_NoSkip(m) ==
    LET first_note_r0 == retrograde(m)[1]
        first_hexachord_p0 == SliceSet(m[1], 0, 6)
        transposition_level(i) == Level(m[i][NumPitchClasses], first_note_r0)
        keep(i) == SliceSet(m[i], 6, 12) \cap first_hexachord_p0 = {}
    IN  Collect({i \in 1..NumPitchClasses : keep(i)},
                [i \in 1..NumPitchClasses |-> FormatLabel(<<"R">>, transposition_level(i))])

\* faulty variant: the hexachord is taken from the front of the unreversed row
Hexachords_retrograde_combinatorials_FrontHalf(m) ==
    LET first_note_r0 == retrograde(m)[1]
        first_hexachord_p0 == SliceSet(m[1], 0, 6)
        transposition_level(i) == Level(m[i][NumPitchClasses], first_note_r0)
        keep(i) == /\ SliceSet(m[i], 0, 6) \cap first_hexachord_p0 = {}
                   /\ transposition_level(i) # 0
    IN  Collect({i \in 1..NumPitchClasses : keep(i)},
                [i \in 1..NumPitchClasses |-> FormatLabel(<<"R">>, transposition_level(i))])

Hexachords_retrograde_combinatorials(m) ==
    LET first_note_r0 == retrograde(m)[1]
        first_hexachord_p0 == SliceSet(m[1], 0, 6)
        transposition_level(i) == Level(m[i][NumPitchClasses], first_note_r0)
        keep(i) == /\ SliceSet(m[i], 6, 12) \cap first_hexachord_p0 = {}
                   /\ transposition_level(i) # 0
    IN  Collect({i \in 1..NumPitchClasses : keep(i)},
                [i \in 1..NumPitchClasses |-> FormatLabel(<<"R">>, transposition_level(i))])

Hexachords_inversion_combinatorials(m) ==
    LET first_note_i0 == inversion(m)[1]
        first_hexachord_p0 == SliceSet(m[1], 0, 6)
        inversion_form(c) == Column(m, c - 1)
        inversion_level(c) == Level(inversion_form(c)[1], first_note_i0)
        keep(c) == /\ SliceSet(inversion_form(c), 0, 6) \cap first_hexachord_p0 = {}
                   /\ inversion_level(c) # 0
    IN  Collect({c \in 1..NumPitchClasses : keep(c)},
                [c \in 1..NumPitchClasses |-> FormatLabel(<<"I">>, inversion_level(c))])

\* faulty variant: the columns are not reversed
Hexachords_retrograde_inversion_combinatorials_Unreversed(m) ==
    LET first_note_ri0 == retrograde_inversion(m)[1]
        first_hexachord_p0 == SliceSet(m[1], 0, 6)
        ri_form(c) == Column(m, c - 1)
        ri_level(c) == Level(ri_form(c)[1], first_note_ri0)
        keep(c) == /\ SliceSet(ri_form(c), 0, 6) \cap first_hexachord_p0 = {}
                   /\ ri_level(c) # 0
    IN  Collect({c \in 1..NumPitchClasses : keep(c)},
                [c \in 1..NumPitchClasses |-> FormatLabel(<<"R", "I">>, ri_level(c))])

Hexachords_retrograde_inversion_combinatorials(m) ==
    LET first_note_ri0 == retrograde_inversion(m)[1]
        first_hexachord_p0 == SliceSet(m[1], 0, 6)
        ri_form(c) == Reverse(Column(m, c - 1))
        ri_level(c) == Level(ri_form(c)[1], first_note_ri0)
        keep(c) == /\ SliceSet(ri_form(c), 0, 6) \cap first_hexachord_p0 = {}
                   /\ ri_level(c) # 0
    IN  Collect({c \in 1..NumPitchClasses : keep(c)},
                [c \in 1..NumPitchClasses |-> FormatLabel(<<"R", "I">>, ri_level(c))])

all_hexachordal_combinatorials(m) ==
    Hexachords_prime_combinatorials(m)
        \o Hexachords_retrograde_combinatorials(m)
        \o Hexachords_inversion_combinatorials(m)
        \o Hexachords_retrograde_inversion_combinatorials(m)

\* ---------------------------------------------- CombinatorialTetrachords
\* faulty variant: the tetrachords are compared position by position
Tetrachords_match_Positional(form, p0) ==
    /\ SliceSet(form, 0, 4) = SliceSet(p0, 0, 4)
    /\ SliceSet(form, 4, 8) = SliceSet(p0, 4, 8)
    /\ SliceSet(form, 8, 12) = SliceSet(p0, 8, 12)

\* the match block of the four tetrachord detectors: the form's tetrachords
\* are put in a list; for P0's first and then second tetrachord an equal
\* entry is searched and removed; the one entry left must equal the third
Tetrachords_match(form, p0) ==
    LET first_tetrachord_p0 == SliceSet(p0, 0, 4)
        second_tetrachord_p0 == SliceSet(p0, 4, 8)
        third_tetrachord_p0 == SliceSet(p0, 8, 12)
        form_tetrachords ==
            <<SliceSet(form, 0, 4), SliceSet(form, 4, 8), SliceSet(form, 8, 12)>>
        after_first == ListRemove(form_tetrachords, first_tetrachord_p0)
        after_second == ListRemove(after_first, second_tetrachord_p0)
    IN  /\ ListHas(form_tetrachords, first_tetrachord_p0)
        /\ ListHas(after_first, second_tetrachord_p0)
        /\ Len(after_second) = 1
        /\ third_tetrachord_p0 = after_second[1]

Tetrachords_prime_combinatorials(m) ==
    LET first_note_reference == prime_row(m)[1]
        form(i) == m[i]
        level(i) == Level(form(i)[1], first_note_reference)
        keep(i) == /\ Tetrachords_match(form(i), m[1])
                   /\ level(i) # 0
    IN  Collect({i \in 1..NumPitchClasses : keep(i)},
                [i \in 1..NumPitchClasses |-> FormatLabel(<<"P">>, level(i))])

Tetrachords_retrograde_combinatorials(m) ==
    LET first_note_reference == retrograde(m)[1]
        form(i) == Reverse(m[i])
        level(i) == Level(form(i)[1], first_note_reference)
        keep(i) == /\ Tetrachords_match(form(i), m[1])
                   /\ level(i) # 0
    IN  Collect({i \in 1..NumPitchClasses : keep(i)},
                [i \in 1..NumPitchClasses |-> FormatLabel(<<"R">>, level(i))])

\* faulty variant: level 0 is skipped as in the prime and retrograde detectors
Tetrachords_inversion_combinatorials_SkipZero(m) ==
    LET first_note_reference == inversion(m)[1]
        form(i) == Column(m, i - 1)
        level(i) == Level(form(i)[1], first_note_reference)
        keep(i) == /\ Tetrachords_match(form(i), m[1])
                   /\ level(i) # 0
    IN  Collect({i \in 1..NumPitchClasses : keep(i)},
                [i \in 1..NumPitchClasses |-> FormatLabel(<<"I">>, level(i))])

Tetrachords_inversion_combinatorials(m) ==
    LET first_note_reference == inversion(m)[1]
        form(i) == Column(m, i - 1)
        level(i) == Level(form(i)[1], first_note_reference)
        keep(i) == /\ Tetrachords_match(form(i), m[1])
    IN  Collect({i \in 1..NumPitchClasses : keep(i)},
                [i \in 1..NumPitchClasses |-> FormatLabel(<<"I">>, level(i))])

\* faulty variant: the level is measured from the first note of I0, not of RI0
Tetrachords_retrograde_inversion_combinatorials_FromI0(m) ==
    LET first_note_reference == inversion(m)[1]
        form(i) == Reverse(Column(m, i - 1))
        level(i) == Level(form(i)[1], first_note_reference)
        keep(i) == /\ Tetrachords_match(form(i), m[1])
    IN  Collect({i \in 1..NumPitchClasses : keep(i)},
                [i \in 1..NumPitchClasses |-> FormatLabel(<<"R", "I">>, level(i))])

Tetrachords_retrograde_inversion_combinatorials(m) ==
    LET first_note_reference == retrograde_inversion(m)[1]
        form(i) == Reverse(Column(m, i - 1))
        level(i) == Level(form(i)[1], first_note_reference)
        keep(i) == /\ Tetrachords_match(form(i), m[1])
    IN  Collect({i \in 1..NumPitchClasses : keep(i)},
                [i \in 1..NumPitchClasses |-> FormatLabel(<<"R", "I">>, level(i))])

\* faulty variant: the prime output is extended twice, the retrograde output never
all_tetrachordal_combinatorials_PrimeTwice(m) ==
    Tetrachords_prime_combinatorials(m)
        \o Tetrachords_prime_combinatorials(m)
        \o Tetrachords_inversion_combinatorials(m)
        \o Tetrachords_retrograde_inversion_combinatorials(m)

all_tetrachordal_combinatorials(m) ==
    Tetrachords_prime_combinatorials(m)
        \o Tetrachords_retrograde_combinatorials(m)
        \o Tetrachords_inversion_combinatorials(m)
        \o Tetrachords_retrograde_inversion_combinatorials(m)

\* ----------------------------------------------- CombinatorialTrichords
\* faulty variant: the form's trichords are cut one position late (wrapping)
Trichords_match_CutLate(form, p0) ==
    LET first_trichord_p0 == SliceSet(p0, 0, 3)
        second_trichord_p0 == SliceSet(p0, 3, 6)
        third_trichord_p0 == SliceSet(p0, 6, 9)
        fourth_trichord_p0 == SliceSet(p0, 9, 12)
        form_trichords ==
            <<SliceSet(form, 1, 4), SliceSet(form, 4, 7),
              SliceSet(form, 7, 10), SliceSet(form, 10, 12) \cup SliceSet(form, 0, 1)>>
        after_first == ListRemove(form_trichords, first_trichord_p0)
        after_second == ListRemove(after_first, second_trichord_p0)
        after_third == ListRemove(after_second, third_trichord_p0)
    IN  /\ ListHas(form_trichords, first_trichord_p0)
        /\ ListHas(after_first, second_trichord_p0)
        /\ ListHas(after_second, third_trichord_p0)
        /\ Len(after_third) = 1
        /\ fourth_trichord_p0 = after_third[1]

\* the match block of the four trichord detectors: as for tetrachords, with
\* three searched trichords and the fourth compared with the entry left
Trichords_match(form, p0) ==
    LET first_trichord_p0 == SliceSet(p0, 0, 3)
        second_trichord_p0 == SliceSet(p0, 3, 6)
        third_trichord_p0 == SliceSet(p0, 6, 9)
        fourth_trichord_p0 == SliceSet(p0, 9, 12)
        form_trichords ==
            <<SliceSet(form, 0, 3), SliceSet(form, 3, 6),
              SliceSet(form, 6, 9), SliceSet(form, 9, 12)>>
        after_first == ListRemove(form_trichords, first_trichord_p0)
        after_second == ListRemove(after_first, second_trichord_p0)
        after_third == ListRemove(after_second, third_trichord_p0)
    IN  /\ ListHas(form_trichords, first_trichord_p0)
        /\ ListHas(after_first, second_trichord_p0)
        /\ ListHas(after_second, third_trichord_p0)
        /\ Len(after_third) = 1
        /\ fourth_trichord_p0 = after_third[1]

Trichords_prime_combinatorials(m) ==
    LET first_note_reference == prime_row(m)[1]
        form(i) == m[i]
        level(i) == Level(form(i)[1], first_note_reference)
        keep(i) == /\ Trichords_match(form(i), m[1])
                   /\ level(i) # 0
    IN  Collect({i \in 1..NumPitchClasses : keep(i)},
                [i \in 1..NumPitchClasses |-> FormatLabel(<<"P">>, level(i))])

\* faulty variant: level 0 is not skipped
Trichords_retrograde_combinatorials_NoSkip(m) ==
    LET first_note_reference == retrograde(m)[1]
        form(i) == Reverse(m[i])
        level(i) == Level(form(i)[1], first_note_reference)
        keep(i) == Trichords_match(form(i), m[1])
    IN  Collect({i \in 1..NumPitchClasses : keep(i)},
                [i \in 1..NumPitchClasses |-> FormatLabel(<<"R">>, level(i))])

Trichords_retrograde_combinatorials(m) ==
    LET first_note_reference == retrograde(m)[1]
        form(i) == Reverse(m[i])
        level(i) == Level(form(i)[1], first_note_reference)
        keep(i) == /\ Trichords_match(form(i), m[1])
                   /\ level(i) # 0
    IN  Collect({i \in 1..NumPitchClasses : keep(i)},
                [i \in 1..NumPitchClasses |-> FormatLabel(<<"R">>, level(i))])

\* faulty variant: levels are counted from the first note of RI0
Trichords_inversion_combinatorials_FromRI0(m) ==
    LET first_note_reference == retrograde_inversion(m)[1]
        form(i) == Column(m, i - 1)
        level(i) == Level(form(i)[1], first_note_reference)
        keep(i) == /\ Trichords_match(form(i), m[1])
    IN  Collect({i \in 1..NumPitchClasses : keep(i)},
                [i \in 1..NumPitchClasses |-> FormatLabel(<<"I">>, level(i))])

Trichords_inversion_combinatorials(m) ==
    LET first_note_reference == inversion(m)[1]
        form(i) == Column(m, i - 1)
        level(i) == Level(form(i)[1], first_note_reference)
        keep(i) == /\ Trichords_match(form(i), m[1])
    IN  Collect({i \in 1..NumPitchClasses : keep(i)},
                [i \in 1..NumPitchClasses |-> FormatLabel(<<"I">>, level(i))])

Trichords_retrograde_inversion_combinatorials(m) ==
    LET first_note_reference == retrograde_inversion(m)[1]
        form(i) == Reverse(Column(m, i - 1))
        level(i) == Level(form(i)[1], first_note_reference)
        keep(i) == /\ Trichords_match(form(i), m[1])
    IN  Collect({i \in 1..NumPitchClasses : keep(i)},
                [i \in 1..NumPitchClasses |-> FormatLabel(<<"R", "I">>, level(i))])

all_trichordal_combinatorials(m) ==
    Trichords_prime_combinatorials(m)
        \o Trichords_retrograde_combinatorials(m)
        \o Trichords_inversion_combinatorials(m)
        \o Trichords_retrograde_inversion_combinatorials(m)

\* ----------------------------------------------- CombinatorialTableEntry
\* ord(c) for the characters that occur in labels and joined strings
ord(c) ==
    CASE c = " " -> 32
      [] c \in {DigitChars[d] : d \in 1..10} -> 47 + (CHOOSE d \in 1..10 : DigitChars[d] = c)
      [] c = "I" -> 73
      [] c = "P" -> 80
      [] c = "R" -> 82

\* a < b for two str values: the first differing character decides, a proper
\* prefix is smaller
RECURSIVE str_lt(_, _)
str_lt(a, b) ==
    IF a = <<>> THEN b # <<>>
    ELSE IF b = <<>> THEN FALSE
    ELSE IF a[1] = b[1] THEN str_lt(Tail(a), Tail(b))
    ELSE ord(a[1]) < ord(b[1])

\* faulty variant: the list is left in the order the detectors produced it
sorted_NotSorted(list) == list

\* sorted(list) for a list of str: ascending, equal elements in their order
RECURSIVE sorted(_)
sorted(list) ==
    IF list = <<>>
    THEN <<>>
    ELSE LET x == list[Len(list)]
             rest == sorted(SubSeq(list, 1, Len(list) - 1))
             k == Cardinality({i \in 1..Len(rest) : ~str_lt(x, rest[i])})
         IN  SubSeq(rest, 1, k) \o <<x>> \o SubSeq(rest, k + 1, Len(rest))

\* sep.join(list)
RECURSIVE str_join(_, _)
str_join(sep, list) ==
    IF list = <<>> THEN <<>>
    ELSE IF Len(list) = 1 THEN list[1]
    ELSE list[1] \o sep \o str_join(sep, Tail(list))

\* ' '.join(str(pitch) for pitch in prime_array)
prime_row_string(m) ==
    str_join(<<" ">>, [k \in 1..Len(prime_row(m)) |-> DecimalString(prime_row(m)[k])])

\* ' '.join(sorted(combinatorials))
hexachordal_combinatorials_string(m) ==
    str_join(<<" ">>, sorted(all_hexachordal_combinatorials(m)))

tetrachordal_combinatorials_string(m) ==
    str_join(<<" ">>, sorted(all_tetrachordal_combinatorials(m)))

trichordal_combinatorials_string(m) ==
    str_join(<<" ">>, sorted(all_trichordal_combinatorials(m)))

\* ------------------------------------------------------------- input rows
Identity == <<0, 1, 2, 3, 4, 5, 6, 7, 8, 9, 10, 11>>
Webern == <<0, 11, 3, 4, 8, 7, 9, 5, 6, 1, 2, 10>>
Berg == <<0, 11, 7, 4, 2, 9, 3, 8, 10, 1, 5, 6>>
Babbitt == <<0, 3, 5, 4, 7, 8, 11, 10, 1, 2, 9, 6>>
Row620 == <<0, 1, 4, 5, 8, 9, 2, 3, 6, 7, 10, 11>>
TrichordRow == <<0, 3, 1, 4, 2, 5, 6, 9, 7, 10, 8, 11>>
TetrachordRow == <<0, 1, 4, 5, 2, 3, 6, 7, 8, 9, 10, 11>>
\* rows that do not start on pitch class 0
Tritone == <<6, 7, 8, 9, 10, 11, 0, 1, 2, 3, 4, 5>>
Suite == <<4, 5, 7, 1, 6, 3, 8, 2, 11, 0, 9, 10>>
\* a row whose second hexachord is its own inversion about the first note
Mirror == <<0, 4, 5, 6, 7, 8, 1, 2, 3, 9, 10, 11>>
\* a row whose tetrachords are, as a collection, their own inversions about 0
SelfInverse == <<0, 1, 11, 6, 2, 3, 4, 5, 7, 8, 9, 10>>

BaseRows == {Identity, Webern, Berg, Babbitt, Row620, TrichordRow, TetrachordRow,
             Tritone, Suite, Mirror, SelfInverse}

Swap(r, i, j) == [r EXCEPT ![i] = r[j], ![j] = r[i]]

\* rows obtained from the base rows by at most n swaps of two neighbouring positions
RECURSIVE Swapped(_)
Swapped(n) ==
    IF n = 0
    THEN BaseRows
    ELSE LET prev == Swapped(n - 1)
         IN  prev \cup {Swap(r, i, i + 1) : r \in prev,
                                            i \in 1..(NumPitchClasses - 1)}

ValidRows == Swapped(MaxSwaps)

\* arrays that are not tone rows: too short, too long, with one entry replaced
\* by a duplicate or by a value outside 0..11
BadValues == (0 - OutOfRange)..(NumPitchClasses - 1 + OutOfRange)

Corrupted(r) ==
    ({SubSeq(r, 1, n) : n \in 0..(Len(r) - 1)}
        \cup {Append(r, v) : v \in BadValues}
        \cup {[r EXCEPT ![p] = v] : p \in 1..Len(r), v \in BadValues}) \ {r}

InvalidRows == Corrupted(Identity) \cup Corrupted(Webern)

InputRows == ValidRows \cup InvalidRows

\* ------------------------------------------------------------------ state
VARIABLES
    arr,      \* the caller's array (argument of ToneRow(...) and transpose_row)
    matrix,   \* ToneRow.__matrix of the constructed object, NoMatrix before
    call,     \* the last call made: <<class, method>> and its arguments on entry
    ret,      \* the value the last call returned
    err,      \* the error the last call raised, "none" if it returned
    ntrans,   \* number of transpose_row calls made so far
    gen,      \* the generator object of tonerows_starting_with_zero_iterator,
              \* with the number of rows it has yielded so far (count)
    yielded,  \* the rows the generator has yielded, in order, from the last
              \* one yielded before the first state on
    writes,   \* number of element writes the caller made into returned arrays
    db,       \* populate_combinatorials_table: its locals and the database
    other     \* a second generator object, made by another call of the enumerator

vars == <<arr, matrix, call, ret, err, ntrans, gen, yielded, writes, db, other>>

NoMatrix == <<>>
NoError == "none"
InvalidRowError == "provided tone row is not valid"
RangeError == "Interval size must be between -11 and 11"

NoCall == [op |-> <<"none", "none">>, row |-> <<>>, interval |-> 0]

\* populate_combinatorials_table has not been called: its parameters and
\* locals, the connection, the rows of the combinatorials table that are
\* committed (table) and those inserted in the open transaction (pending),
\* the value of total_processed at each commit, and the error that left the
\* call. When the first state is taken inside a running loop, start is the
\* number of iterations made before it; the rows committed before it are not
\* listed in table and the commits made before it not in commits
NoPopulate ==
    [pc |-> "idle", batchSize |-> 0, limitForTesting |-> 0, iteration_range |-> 0,
     done |-> 0, batch_count |-> 0, total_processed |-> 0,
     connection |-> "None", exists |-> FALSE, table |-> <<>>, pending |-> <<>>,
     commits |-> <<>>, rollbacks |-> 0, raised |-> "none", start |-> 0]

\* no generator has been created
NoGenerator ==
    [created |-> FALSE, started |-> FALSE, done |-> FALSE,
     indices |-> <<>>, cycles |-> <<>>, count |-> 0]
\* the second generator carries the rows it has yielded
NoOtherGenerator ==
    [created |-> FALSE, started |-> FALSE, done |-> FALSE,
     indices |-> <<>>, cycles |-> <<>>, count |-> 0, yielded |-> <<>>]

Init ==
    /\ arr \in InputRows
    /\ matrix = NoMatrix
    /\ call = NoCall
    /\ ret = <<>>
    /\ err = NoError
    /\ ntrans = 0
    /\ gen = NoGenerator
    /\ yielded = <<>>
    /\ writes = 0
    /\ db = NoPopulate
    /\ other = NoOtherGenerator

\* tone_row = ToneRow(arr)
Construct ==
    /\ call = NoCall
    /\ call' = [op |-> <<"ToneRow", "__init__">>, row |-> arr, interval |-> 0]
    /\ matrix' = ToneRow_init(arr).matrix
    /\ err' = ToneRow_init(arr).err
    /\ ret' = <<>>
    /\ UNCHANGED <<arr, ntrans, gen, yielded, writes, db, other>>

\* faulty variant: retrograde() reverses row 0 of the stored matrix in place
\* instead of reversing a copy
Returns_InPlace(op, value) ==
    /\ matrix # NoMatrix
    /\ call' = [op |-> op, row |-> <<>>, interval |-> 0]
    /\ ret' = value
    /\ err' = NoError
    /\ matrix' = IF op = <<"ToneRow", "retrograde">>
                 THEN [matrix EXCEPT ![1] = Reverse(matrix[1])]
                 ELSE matrix
    /\ UNCHANGED <<arr, ntrans, gen, yielded, writes, db, other>>

\* a call on the constructed object that returns value
Returns(op, value) ==
    /\ matrix # NoMatrix
    /\ call' = [op |-> op, row |-> <<>>, interval |-> 0]
    /\ ret' = value
    /\ err' = NoError
    /\ UNCHANGED <<arr, matrix, ntrans, gen, yielded, writes, db, other>>

CallPrimeRow == Returns(<<"ToneRow", "prime_row">>, prime_row(matrix))

CallInversion == Returns(<<"ToneRow", "inversion">>, inversion(matrix))

CallRetrograde == Returns(<<"ToneRow", "retrograde">>, retrograde(matrix))

CallRetrogradeInversion == Returns(<<"ToneRow", "retrograde_inversion">>, retrograde_inversion(matrix))

CallMatrix == Returns(<<"ToneRow", "matrix">>, matrix)

CallHexPrime == Returns(<<"Hexachords", "prime">>, Hexachords_prime_combinatorials(matrix))

CallHexRetrograde == Returns(<<"Hexachords", "retrograde">>, Hexachords_retrograde_combinatorials(matrix))

CallHexInversion == Returns(<<"Hexachords", "inversion">>, Hexachords_inversion_combinatorials(matrix))

CallHexRetrogradeInversion == Returns(<<"Hexachords", "retrograde_inversion">>, Hexachords_retrograde_inversion_combinatorials(matrix))

CallTetPrime == Returns(<<"Tetrachords", "prime">>, Tetrachords_prime_combinatorials(matrix))

CallTetRetrograde == Returns(<<"Tetrachords", "retrograde">>, Tetrachords_retrograde_combinatorials(matrix))

CallTetInversion == Returns(<<"Tetrachords", "inversion">>, Tetrachords_inversion_combinatorials(matrix))

CallTetRetrogradeInversion == Returns(<<"Tetrachords", "retrograde_inversion">>, Tetrachords_retrograde_inversion_combinatorials(matrix))

CallTriPrime == Returns(<<"Trichords", "prime">>, Trichords_prime_combinatorials(matrix))

CallTriRetrograde == Returns(<<"Trichords", "retrograde">>, Trichords_retrograde_combinatorials(matrix))

CallTriInversion == Returns(<<"Trichords", "inversion">>, Trichords_inversion_combinatorials(matrix))

CallTriRetrogradeInversion == Returns(<<"Trichords", "retrograde_inversion">>, Trichords_retrograde_inversion_combinatorials(matrix))

CallAllHexachordal == Returns(<<"Hexachords", "all">>, all_hexachordal_combinatorials(matrix))

CallAllTetrachordal == Returns(<<"Tetrachords", "all">>, all_tetrachordal_combinatorials(matrix))

CallAllTrichordal == Returns(<<"Trichords", "all">>, all_trichordal_combinatorials(matrix))

CallPrimeRowString ==
    Returns(<<"CombinatorialTableEntry", "prime_row_string">>, prime_row_string(matrix))

CallHexachordalString ==
    Returns(<<"CombinatorialTableEntry", "hexachordal_combinatorials_string">>,
            hexachordal_combinatorials_string(matrix))

CallTetrachordalString ==
    Returns(<<"CombinatorialTableEntry", "tetrachordal_combinatorials_string">>,
            tetrachordal_combinatorials_string(matrix))

CallTrichordalString ==
    Returns(<<"CombinatorialTableEntry", "trichordal_combinatorials_string">>,
            trichordal_combinatorials_string(matrix))

Next ==
    \/ Construct
    \/ CallPrimeRow
    \/ CallInversion
    \/ CallRetrograde
    \/ CallRetrogradeInversion
    \/ CallMatrix
    \/ CallHexPrime
    \/ CallHexRetrograde
    \/ CallHexInversion
    \/ CallHexRetrogradeInversion
    \/ CallTetPrime
    \/ CallTetRetrograde
    \/ CallTetInversion
    \/ CallTetRetrogradeInversion
    \/ CallTriPrime
    \/ CallTriRetrograde
    \/ CallTriInversion
    \/ CallTriRetrogradeInversion
    \/ CallAllHexachordal
    \/ CallAllTetrachordal
    \/ CallAllTrichordal
    \/ CallPrimeRowString
    \/ CallHexachordalString
    \/ CallTetrachordalString
    \/ CallTrichordalString

Spec == Init /\ [][Next]_vars

\* ------------------------------------------- transpose_row on caller arrays
\* ToneRow.transpose_row(arr, intervalSize)
TransposeRow(intervalSize) ==
    /\ ntrans < MaxTransposes
    /\ ntrans' = ntrans + 1
    /\ call' = [op |-> <<"ToneRow", "transpose_row">>, row |-> arr, interval |-> intervalSize]
    /\ arr' = transpose_row(arr, intervalSize).arg
    /\ ret' = transpose_row(arr, intervalSize).ret
    /\ err' = transpose_row(arr, intervalSize).err
    /\ UNCHANGED <<matrix, gen, yielded, writes, db, other>>

Intervals == (0 - MaxInterval)..MaxInterval

NextTranspose == \E intervalSize \in Intervals : TransposeRow(intervalSize)

SpecTranspose == Init /\ [][NextTranspose]_vars

\* ------------------------------- caller writes into what an accessor returned
\* the five accessors of ToneRow that return an array
AccessorCalls ==
    {<<"ToneRow", name>> :
         name \in {"prime_row", "inversion", "retrograde", "retrograde_inversion",
                   "matrix"}}

\* positions a caller writes at: the first and the last element (of a matrix,
\* the first and the last element of its diagonal)
WritePositions == {1, NumPitchClasses}

\* returned[p] = v (returned[p][p] = v for a matrix), on the array the last
\* accessor call returned: prime_row, inversion, retrograde and
\* retrograde_inversion return a copy, matrix() returns self.__matrix itself,
\* so a write into its result is a write into the object's matrix
WriteReturned(p, v) ==
    /\ matrix # NoMatrix
    /\ writes < MaxWrites
    /\ call.op \in AccessorCalls
    /\ writes' = writes + 1
    /\ call' = [op |-> <<"caller", "setitem">>, row |-> <<>>, interval |-> 0]
    /\ err' = NoError
    /\ IF call.op = <<"ToneRow", "matrix">>
       THEN /\ v # ret[p][p]
            /\ ret' = [ret EXCEPT ![p][p] = v]
            /\ matrix' = [ret EXCEPT ![p][p] = v]
       ELSE /\ v # ret[p]
            /\ ret' = [ret EXCEPT ![p] = v]
            /\ matrix' = matrix
    /\ UNCHANGED <<arr, ntrans, gen, yielded, db, other>>

WrittenValues == {0, NumPitchClasses - 1}

InitAlias ==
    /\ arr \in BaseRows
    /\ matrix = NoMatrix
    /\ call = NoCall
    /\ ret = <<>>
    /\ err = NoError
    /\ ntrans = 0
    /\ gen = NoGenerator
    /\ yielded = <<>>
    /\ writes = 0
    /\ db = NoPopulate
    /\ other = NoOtherGenerator

NextAlias ==
    \/ Next
    \/ \E p \in WritePositions, v \in WrittenValues : WriteReturned(p, v)

SpecAlias == InitAlias /\ [][NextAlias]_vars

\* ----------------------------------- tonerows_starting_with_zero_iterator
\* list(range(1, 12))
remaining_pitches == [k \in 1..(NumPitchClasses - 1) |-> k]

StopIteration == "StopIteration"

\* faulty variant of the visit: a position whose cycle count ran out is reset
\* without rotating the tail of indices
RECURSIVE permutations_visit_NoRotate(_, _, _)
permutations_visit_NoRotate(indices, cycles, i) ==
    LET n == Len(indices)
        c == cycles[i] - 1
    IN  IF i = 0
        THEN [exhausted |-> TRUE, indices |-> indices, cycles |-> cycles]
        ELSE IF c = 0
             THEN CHOOSE visited \in
                      {permutations_visit_NoRotate(indices, reset, i - 1) :
                           reset \in {[cycles EXCEPT ![i] = n + 1 - i]}} : TRUE
             ELSE [exhausted |-> FALSE,
                   indices |-> Swap(indices, i, n - c + 1),
                   cycles |-> [cycles EXCEPT ![i] = c]]

\* itertools.permutations(pool), one advance of its state: positions are
\* visited from the right; a position whose cycle count reaches 0 rotates the
\* tail of indices and resets its count, the first other position swaps and
\* stops the visit; when every position ran out the iteration is exhausted
\* (the rotated indices and the reset cycles are bound as values before the
\* visit goes on to the next position)
RECURSIVE permutations_visit(_, _, _)
permutations_visit(indices, cycles, i) ==
    LET n == Len(indices)
        c == cycles[i] - 1
    IN  IF i = 0
        THEN [exhausted |-> TRUE, indices |-> indices, cycles |-> cycles]
        ELSE IF c = 0
             THEN CHOOSE visited \in
                      {permutations_visit(rotated, reset, i - 1) :
                           rotated \in {SubSeq(indices, 1, i - 1)
                                            \o SubSeq(indices, i + 1, n)
                                            \o <<indices[i]>>},
                           reset \in {[cycles EXCEPT ![i] = n + 1 - i]}} : TRUE
             ELSE [exhausted |-> FALSE,
                   indices |-> Swap(indices, i, n - c + 1),
                   cycles |-> [cycles EXCEPT ![i] = c]]

\* faulty variant: the advance uses the visit that does not rotate
permutations_advance_NoRotate(indices, cycles) ==
    permutations_visit_NoRotate(indices, cycles, Len(indices))

\* `for i in reversed(range(r))` of itertools.permutations
permutations_advance(indices, cycles) ==
    permutations_visit(indices, cycles, Len(indices))

\* faulty variant: the permutation is laid out back to front
enumerated_row_BackToFront(indices) ==
    <<0>> \o [k \in 1..Len(indices) |->
                remaining_pitches[indices[Len(indices) + 1 - k]]]

\* the row built from a permutation: row[0] = 0, row[1:] = perm
enumerated_row(indices) ==
    <<0>> \o [k \in 1..Len(indices) |-> remaining_pitches[indices[k]]]

\* math.factorial
RECURSIVE factorial(_)
factorial(n) == IF n = 0 THEN 1 ELSE n * factorial(n - 1)

\* the number of times each position of the permutations object has moved on
\* when rank + 1 permutations of n things were yielded (position k moves on
\* once in (n-k)! yields and starts again after n-k+1 moves)
moves(rank, n) ==
    [k \in 1..n |-> (rank \div factorial(n - k)) % (n - k + 1)]

\* indices after those moves: position k holds the entry number moved[k] (from
\* 0) of what the positions before it left of the ascending pool
RECURSIVE indices_after(_, _)
indices_after(pool, moved) ==
    IF moved = <<>>
    THEN <<>>
    ELSE <<pool[moved[1] + 1]>>
             \o indices_after(SubSeq(pool, 1, moved[1])
                                  \o SubSeq(pool, moved[1] + 2, Len(pool)),
                              Tail(moved))

\* the generator suspended at its yield after count >= 1 calls of next()
suspended_generator(count) ==
    LET n == Len(remaining_pitches)
        moved == moves(count - 1, n)
    IN  [created |-> TRUE, started |-> TRUE, done |-> FALSE,
         indices |-> indices_after([k \in 1..n |-> k], moved),
         cycles |-> [k \in 1..n |-> n + 1 - k - moved[k]],
         count |-> count]

\* the numbers of next() calls after which a generator is taken up: before
\* each depth of carry of the permutations object (m * j! rows yielded, the
\* next advance resets j - 1 positions) and at the end of the enumeration
SuspendedCounts ==
    {m * factorial(j) : j \in 1..(Len(remaining_pitches) - 1),
                        m \in 1..Len(remaining_pitches)}
        \cup {factorial(Len(remaining_pitches)) - k : k \in 0..MaxNexts}

\* no generator yet, or a generator that has been advanced count times, the
\* caller holding the row of the last next()
InitEnumerate ==
    /\ gen \in {NoGenerator}
                \cup {suspended_generator(count) : count \in SuspendedCounts}
    /\ arr = (IF gen.started THEN enumerated_row(gen.indices) ELSE <<>>)
    /\ ret = (IF gen.started THEN enumerated_row(gen.indices) ELSE <<>>)
    /\ yielded = (IF gen.started THEN <<enumerated_row(gen.indices)>> ELSE <<>>)
    /\ call = (IF gen.started
               THEN [op |-> <<"iterator", "next">>, row |-> <<>>, interval |-> 0]
               ELSE NoCall)
    /\ matrix = NoMatrix
    /\ err = NoError
    /\ ntrans = 0
    /\ writes = 0
    /\ db = NoPopulate
    /\ other = NoOtherGenerator

\* one next() on a generator of the enumerator: the generator afterwards, the
\* row yielded, or exhausted (StopIteration)
generator_next(g) ==
    LET n == Len(remaining_pitches)
        first_indices == [k \in 1..n |-> k]
        first_cycles == [k \in 1..n |-> n + 1 - k]
        advanced == permutations_advance(g.indices, g.cycles)
        exhausted == g.started /\ (n = 0 \/ advanced.exhausted)
        indices == IF g.started THEN advanced.indices ELSE first_indices
        cycles == IF g.started THEN advanced.cycles ELSE first_cycles
    IN  IF exhausted
        THEN [exhausted |-> TRUE, row |-> <<>>,
              gen |-> [g EXCEPT !.done = TRUE]]
        ELSE [exhausted |-> FALSE, row |-> enumerated_row(indices),
              gen |-> [g EXCEPT !.started = TRUE, !.indices = indices,
                                !.cycles = cycles, !.count = @ + 1]]

\* permutation_iterator = ToneRow.tonerows_starting_with_zero_iterator():
\* creates the generator; none of its body runs before the first next()
IteratorCall ==
    /\ ~gen.created
    /\ gen' = [NoGenerator EXCEPT !.created = TRUE]
    /\ call' = [op |-> <<"ToneRow", "tonerows_starting_with_zero_iterator">>,
                row |-> <<>>, interval |-> 0]
    /\ UNCHANGED <<arr, matrix, ret, err, ntrans, yielded, writes, db, other>>

\* next(permutation_iterator): runs the generator up to its next yield, or to
\* its end (StopIteration)
IteratorNext ==
    /\ gen.created
    /\ ~gen.done
    /\ Len(yielded) <= MaxNexts
    /\ call' = [op |-> <<"iterator", "next">>, row |-> <<>>, interval |-> 0]
    /\ LET step == generator_next(gen)
       IN  /\ gen' = step.gen
           /\ IF step.exhausted
              THEN /\ err' = StopIteration
                   /\ ret' = <<>>
                   /\ UNCHANGED <<arr, yielded>>
              ELSE /\ err' = NoError
                   /\ ret' = step.row
                   /\ arr' = step.row
                   /\ yielded' = Append(yielded, step.row)
    /\ UNCHANGED <<matrix, ntrans, writes, db, other>>

NextEnumerate ==
    \/ IteratorCall
    \/ IteratorNext

\* the consumer keeps calling next() while the generator is not exhausted
SpecEnumerate ==
    InitEnumerate /\ [][NextEnumerate]_vars /\ WF_vars(NextEnumerate)

\* ------------------------------------------- two generators side by side
\* a second call of ToneRow.tonerows_starting_with_zero_iterator(): every call
\* of a generator function makes a new generator object with its own locals
\* (remaining_pitches, the permutations object); made again, it replaces the
\* second generator
IteratorCallOther ==
    /\ ~other.created \/ other.started
    /\ other' = [NoOtherGenerator EXCEPT !.created = TRUE]
    /\ call' = [op |-> <<"ToneRow", "tonerows_starting_with_zero_iterator">>,
                row |-> <<>>, interval |-> 0]
    /\ UNCHANGED <<arr, matrix, ret, err, ntrans, gen, yielded, writes, db>>

\* next() on the second generator
IteratorNextOther ==
    /\ other.created
    /\ ~other.done
    /\ Len(other.yielded) < MaxOtherNexts
    /\ call' = [op |-> <<"other iterator", "next">>, row |-> <<>>, interval |-> 0]
    /\ LET step == generator_next([other EXCEPT !.yielded = <<>>])
       IN  IF step.exhausted
           THEN /\ other' = [other EXCEPT !.done = TRUE]
                /\ err' = StopIteration
                /\ ret' = <<>>
                /\ UNCHANGED arr
           ELSE /\ other' = [step.gen EXCEPT !.yielded = Append(other.yielded, step.row)]
                /\ err' = NoError
                /\ ret' = step.row
                /\ arr' = step.row
    /\ UNCHANGED <<matrix, ntrans, gen, yielded, writes, db>>

NextRestart ==
    \/ IteratorCall
    \/ IteratorNext
    \/ IteratorCallOther
    \/ IteratorNextOther

SpecRestart == InitEnumerate /\ [][NextRestart]_vars

\* ------------------------------------- DatabaseWriter.populate_combinatorials_table
DatabaseError == "oracledb.DatabaseError"

\* the four bind values of the INSERT, from CombinatorialTableEntry(new_tonerow)
new_table_entry(m) ==
    [tone_row |-> prime_row_string(m),
     hexachordal |-> hexachordal_combinatorials_string(m),
     tetrachordal |-> tetrachordal_combinatorials_string(m),
     trichordal |-> trichordal_combinatorials_string(m)]

\* faulty variant: a batch is full only when it holds more than batchSize rows
batch_full_Late(d) == d.batch_count > d.batchSize

\* if batch_count >= batchSize
batch_full(d) == d.batch_count >= d.batchSize

\* faulty variant: the connection is left open
Raise_NoClose(d, e) ==
    [d EXCEPT !.pc = "raised", !.raised = e, !.pending = <<>>,
              !.rollbacks = IF d.connection = "open" THEN @ + 1 ELSE @]

\* except Exception as e: rollback if there is a connection, raise; finally:
\* close the connection if there is one
Raise(d, e) ==
    [d EXCEPT !.pc = "raised", !.raised = e, !.pending = <<>>,
              !.rollbacks = IF d.connection = "open" THEN @ + 1 ELSE @,
              !.connection = IF d.connection = "open" THEN "closed" ELSE @]

\* connection.commit(): the rows of the open transaction become table rows
Commit(d) ==
    [d EXCEPT !.table = @ \o d.pending, !.pending = <<>>,
              !.commits = Append(@, d.total_processed)]

\* faulty variant: the rows of the old table are kept
create_combinatorials_table_NoDrop(d, fault) ==
    IF fault = "connect"
    THEN [db |-> d, err |-> DatabaseError]
    ELSE IF fault = "create"
    THEN [db |-> [d EXCEPT !.exists = FALSE, !.table = <<>>], err |-> DatabaseError]
    ELSE [db |-> [d EXCEPT !.exists = TRUE], err |-> NoError]

\* create_combinatorials_table: on a connection of its own, DROP TABLE (an
\* error of the DROP, such as a missing table, is ignored), CREATE TABLE,
\* commit, close. A failing connect leaves the table as it was; a failing
\* CREATE comes after the DROP; either error is raised to the caller
create_combinatorials_table(d, fault) ==
    IF fault = "connect"
    THEN [db |-> d, err |-> DatabaseError]
    ELSE IF fault = "create"
    THEN [db |-> [d EXCEPT !.exists = FALSE, !.table = <<>>], err |-> DatabaseError]
    ELSE [db |-> [d EXCEPT !.exists = TRUE, !.table = <<>>], err |-> NoError]

\* remove_combinatorials_table: on a connection of its own, DROP TABLE (errors
\* of the DROP ignored), commit, close; a failing connect is raised
remove_combinatorials_table(d, fault) ==
    IF fault = "connect"
    THEN [db |-> d, err |-> DatabaseError]
    ELSE [db |-> [d EXCEPT !.exists = FALSE, !.table = <<>>], err |-> NoError]

BatchSizes == 1..MaxBatchSize

\* the default of the parameter batchSize
DefaultBatchSize == 100

\* iteration_range: limitForTesting, or factorial(11) when it is 0
iteration_range(limitForTesting) ==
    IF limitForTesting # 0 THEN limitForTesting ELSE factorial(11)

\* the arguments of the calls: every small batch size with every small limit,
\* and every batch size, the default too, with no limit (0) and with a limit
\* one above the number of rows of the enumeration
LongLimits == {0, factorial(Len(remaining_pitches)) + 1}

PopulateArguments ==
    (BatchSizes \X (1..MaxSmallLimit))
        \cup ((BatchSizes \cup {DefaultBatchSize}) \X LongLimits)

\* the table as an earlier run left it: absent, or holding committed rows
StaleTable ==
    <<new_table_entry(twelvetone_matrix(Identity)),
      new_table_entry(twelvetone_matrix(Webern))>>

\* the row that next() number count returns
row_yielded(count) == enumerated_row(suspended_generator(count).indices)

\* the call populate_combinatorials_table(batchSize, limitForTesting) after
\* done >= 1 iterations without an error: the rows of the batch that is not
\* full yet are in the open transaction
loop_in_progress(batchSize, limitForTesting, done) ==
    [NoPopulate EXCEPT
        !.pc = "loop",
        !.batchSize = batchSize,
        !.limitForTesting = limitForTesting,
        !.iteration_range = iteration_range(limitForTesting),
        !.done = done,
        !.batch_count = done % batchSize,
        !.total_processed = done,
        !.connection = "open",
        !.exists = TRUE,
        !.pending = [k \in 1..(done % batchSize) |->
                        new_table_entry(twelvetone_matrix(
                            row_yielded(done - (done % batchSize) + k)))],
        !.start = done]

\* the long calls are taken up near the end of the enumeration
LoopsInProgress ==
    {loop_in_progress(batchSize, limitForTesting,
                      factorial(Len(remaining_pitches)) - k) :
         batchSize \in BatchSizes, limitForTesting \in LongLimits,
         k \in 1..(MaxIterations - 1)}
    \cup {loop_in_progress(DefaultBatchSize, limitForTesting,
                           factorial(Len(remaining_pitches)) - 1) :
              limitForTesting \in LongLimits}

PopulateOp ==
    [op |-> <<"DatabaseWriter", "populate_combinatorials_table">>,
     row |-> <<>>, interval |-> 0]

\* before a call (the table absent, or left by an earlier run), or inside the
\* loop of a long call
InitPopulate ==
    /\ db \in {NoPopulate,
                [NoPopulate EXCEPT !.exists = TRUE, !.table = StaleTable]}
               \cup LoopsInProgress
    /\ gen = (IF db.pc = "loop" THEN suspended_generator(db.done) ELSE NoGenerator)
    /\ arr = (IF db.pc = "loop" THEN row_yielded(db.done) ELSE <<>>)
    /\ yielded = (IF db.pc = "loop" THEN <<row_yielded(db.done)>> ELSE <<>>)
    /\ matrix = (IF db.pc = "loop" THEN twelvetone_matrix(row_yielded(db.done))
                 ELSE NoMatrix)
    /\ call = (IF db.pc = "loop" THEN PopulateOp ELSE NoCall)
    /\ ret = <<>>
    /\ err = NoError
    /\ ntrans = 0
    /\ writes = 0
    /\ other = NoOtherGenerator

\* DatabaseWriter.create_combinatorials_table() called on its own
CreateTable(fault) ==
    /\ db.pc = "idle"
    /\ db' = create_combinatorials_table(db, fault).db
    /\ err' = create_combinatorials_table(db, fault).err
    /\ call' = [op |-> <<"DatabaseWriter", "create_combinatorials_table">>,
                row |-> <<>>, interval |-> 0]
    /\ UNCHANGED <<arr, matrix, ret, ntrans, gen, yielded, writes, other>>

\* DatabaseWriter.remove_combinatorials_table()
RemoveTable(fault) ==
    /\ db.pc = "idle"
    /\ db' = remove_combinatorials_table(db, fault).db
    /\ err' = remove_combinatorials_table(db, fault).err
    /\ call' = [op |-> <<"DatabaseWriter", "remove_combinatorials_table">>,
                row |-> <<>>, interval |-> 0]
    /\ UNCHANGED <<arr, matrix, ret, ntrans, gen, yielded, writes, other>>

\* populate_combinatorials_table(batchSize, limitForTesting), up to the try:
\* the table is dropped and created (an error there leaves the call at once,
\* before the generator is made), the generator is made, the number of
\* iterations is fixed and the counters are zeroed
PopulateCall(batchSize, limitForTesting, fault) ==
    /\ db.pc = "idle"
    /\ call' = PopulateOp
    /\ LET created == create_combinatorials_table(db, fault)
       IN  IF created.err # NoError
           THEN /\ db' = [created.db EXCEPT
                             !.pc = "raised",
                             !.raised = created.err,
                             !.batchSize = batchSize,
                             !.limitForTesting = limitForTesting]
                /\ err' = created.err
                /\ gen' = gen
           ELSE /\ db' = [created.db EXCEPT
                             !.pc = "connect",
                             !.batchSize = batchSize,
                             !.limitForTesting = limitForTesting,
                             !.iteration_range = iteration_range(limitForTesting),
                             !.batch_count = 0,
                             !.total_processed = 0]
                /\ err' = NoError
                /\ gen' = [NoGenerator EXCEPT !.created = TRUE]
    /\ UNCHANGED <<arr, matrix, ret, ntrans, yielded, writes, other>>

\* connection = oracledb.connect(...), which may raise
PopulateConnect(fault) ==
    /\ db.pc = "connect"
    /\ IF fault = "connect"
       THEN /\ db' = Raise(db, DatabaseError)
            /\ err' = DatabaseError
       ELSE /\ db' = [db EXCEPT !.pc = "loop", !.connection = "open"]
            /\ err' = NoError
    /\ UNCHANGED <<arr, matrix, call, ret, ntrans, gen, yielded, writes, other>>

\* one iteration of the for loop: next(), ToneRow(...), the table entry, the
\* INSERT, the counters and the commit of a full batch; execute and commit
\* may raise, next() raises StopIteration on an exhausted generator
PopulateIteration(fault) ==
    /\ db.pc = "loop"
    /\ db.done < db.iteration_range
    /\ db.done < db.start + MaxIterations
    /\ LET step == generator_next(gen)
           new_tonerow == ToneRow_init(step.row)
           inserted == [db EXCEPT !.pending = Append(@, new_table_entry(new_tonerow.matrix)),
                                  !.batch_count = @ + 1,
                                  !.total_processed = @ + 1,
                                  !.done = @ + 1]
           full == batch_full(inserted)
       IN  /\ gen' = step.gen
           /\ fault = "commit" => (~step.exhausted /\ full)
           /\ IF step.exhausted
              THEN /\ db' = Raise(db, StopIteration)
                   /\ err' = StopIteration
                   /\ UNCHANGED <<arr, matrix, yielded>>
              ELSE /\ arr' = step.row
                   /\ yielded' = Append(yielded, step.row)
                   /\ matrix' = new_tonerow.matrix
                   /\ IF new_tonerow.err # NoError
                      THEN /\ db' = Raise(db, new_tonerow.err)
                           /\ err' = new_tonerow.err
                      ELSE IF fault = "execute"
                      THEN /\ db' = Raise(db, DatabaseError)
                           /\ err' = DatabaseError
                      ELSE IF fault = "commit"
                      THEN /\ db' = Raise(inserted, DatabaseError)
                           /\ err' = DatabaseError
                      ELSE /\ db' = IF full
                                    THEN [Commit(inserted) EXCEPT !.batch_count = 0]
                                    ELSE inserted
                           /\ err' = NoError
    /\ UNCHANGED <<call, ret, ntrans, writes, other>>

\* after the loop: the rows of a part batch are committed (which may raise),
\* the connection is closed and the call returns
PopulateFinish(fault) ==
    /\ db.pc = "loop"
    /\ db.done = db.iteration_range
    /\ fault = "commit" => db.batch_count > 0
    /\ IF fault = "commit"
       THEN /\ db' = Raise(db, DatabaseError)
            /\ err' = DatabaseError
       ELSE /\ db' = [(IF db.batch_count > 0 THEN Commit(db) ELSE db) EXCEPT
                         !.pc = "returned", !.connection = "closed"]
            /\ err' = NoError
    /\ UNCHANGED <<arr, matrix, call, ret, ntrans, gen, yielded, writes, other>>

NextPopulate ==
    \/ \E fault \in {"none", "connect", "create"} : CreateTable(fault)
    \/ \E fault \in {"none", "connect"} : RemoveTable(fault)
    \/ \E arguments \in PopulateArguments, fault \in {"none", "connect", "create"} :
           PopulateCall(arguments[1], arguments[2], fault)
    \/ \E fault \in {"none", "connect"} : PopulateConnect(fault)
    \/ \E fault \in {"none", "execute", "commit"} : PopulateIteration(fault)
    \/ \E fault \in {"none", "commit"} : PopulateFinish(fault)

SpecPopulate == InitPopulate /\ [][NextPopulate]_vars

\* ======================================================== claim vocabulary
\* s is a permutation of {0..11}: twelve entries, each pitch class exactly once
IsPermutation(s) ==
    /\ Len(s) = 12
    /\ \A p \in 0..11 : Cardinality({i \in 1..Len(s) : s[i] = p}) = 1

Range(s) == {s[i] : i \in 1..Len(s)}

Constructed == matrix # NoMatrix

\* C1: for every valid row R, every row and every column of the matrix built
\* from R is a permutation of {0..11}, and row 0 equals R.
C1_RowsAndColumnsArePermutations ==
    Constructed =>
        /\ \A i \in 1..12 : IsPermutation(matrix[i])
        /\ \A c \in 1..12 : IsPermutation([i \in 1..12 |-> matrix[i][c]])
        /\ matrix[1] = arr

\* C1 witness: a matrix was built from a row that does not start on 0
C1_Witness ==
    /\ Constructed
    /\ call.op = <<"ToneRow", "__init__">>
    /\ arr[1] = 11

\* C2 as claimed: column 0 of the matrix, read top to bottom, is the inversion
\* row of step 2, matrix[i][0] = (-row[i]) mod 12 for every i.
C2_Column0IsNegatedRow ==
    Constructed => \A i \in 1..12 : matrix[i][1] = (0 - arr[i]) % 12

\* C2 amended: column 0 is the inversion row of step 2 transposed to start on
\* the row's first note, matrix[i][0] = (inversion[i] - inversion[0] + row[0])
\* mod 12 = (2*row[0] - row[i]) mod 12; it is the inversion row itself exactly
\* when row[0] is 0 or 6.
C2_Column0IsInversionFromFirstNote ==
    Constructed =>
        LET inv == [i \in 1..12 |-> (0 - arr[i]) % 12]
        IN  /\ \A i \in 1..12 :
                /\ matrix[i][1] = (inv[i] - inv[1] + arr[1]) % 12
                /\ matrix[i][1] = (2 * arr[1] - arr[i]) % 12
            /\ (\A i \in 1..12 : matrix[i][1] = inv[i]) <=> arr[1] \in {0, 6}

\* C2 witness: a matrix built from a row starting on 4, whose column 0 starts
\* on 4 while the inversion row of step 2 starts on 8
C2_Witness ==
    /\ Constructed
    /\ arr[1] = 4
    /\ matrix[1][1] = 4
    /\ matrix[2][1] = (8 - arr[2]) % 12

\* C3: for i in 1..11 and j in 0..11, matrix[i][j] = (row[j] + ((inversion[i] -
\* inversion[0]) mod 12)) mod 12 with inversion[k] = (-row[k]) mod 12, so each
\* matrix row is the prime row shifted by one interval and the matrix depends
\* on the prime row alone.
C3_RowsAreTranspositions ==
    Constructed =>
        LET inv == [k \in 1..12 |-> (0 - arr[k]) % 12]
        IN  /\ \A i \in 2..12 : \A j \in 1..12 :
                matrix[i][j] = (arr[j] + ((inv[i] - inv[1]) % 12)) % 12
            /\ \A i \in 1..12 : \E t \in 0..11 : \A j \in 1..12 :
                matrix[i][j] = (arr[j] + t) % 12

\* C3 witness: the matrix of Webern's row, whose second row is the row a
\* semitone higher and whose last row is the row a whole tone higher
C3_Witness ==
    /\ Constructed
    /\ arr = Webern
    /\ matrix[2] = <<1, 0, 4, 5, 9, 8, 10, 6, 7, 2, 3, 11>>
    /\ matrix[12] = <<2, 1, 5, 6, 10, 9, 11, 7, 8, 3, 4, 0>>

\* C4: retrograde() is prime_row() reversed, retrograde_inversion() is
\* inversion() reversed, prime_row() is matrix row 0, inversion() is matrix
\* column 0, and prime_row() and inversion() start on the same note.
C4_DerivedRowRelations ==
    Constructed =>
        /\ \A k \in 1..12 : retrograde(matrix)[k] = prime_row(matrix)[13 - k]
        /\ \A k \in 1..12 :
               retrograde_inversion(matrix)[k] = inversion(matrix)[13 - k]
        /\ Len(retrograde(matrix)) = 12 /\ Len(retrograde_inversion(matrix)) = 12
        /\ prime_row(matrix) = matrix[1]
        /\ inversion(matrix) = [i \in 1..12 |-> matrix[i][1]]
        /\ prime_row(matrix)[1] = inversion(matrix)[1]
        /\ call.op = <<"ToneRow", "prime_row">> => ret = matrix[1]
        /\ call.op = <<"ToneRow", "inversion">> => ret = [i \in 1..12 |-> matrix[i][1]]
        /\ call.op = <<"ToneRow", "retrograde">> => ret = [k \in 1..12 |-> matrix[1][13 - k]]
        /\ call.op = <<"ToneRow", "retrograde_inversion">> =>
               ret = [k \in 1..12 |-> matrix[13 - k][1]]

\* C4 witness: retrograde_inversion() was called on Webern's row and returned
\* the known RI0
C4_Witness ==
    /\ Constructed
    /\ call.op = <<"ToneRow", "retrograde_inversion">>
    /\ ret = <<2, 10, 11, 6, 7, 3, 5, 4, 8, 9, 1, 0>>

\* C5: construction fails, with the invalid-row error, exactly when the input
\* does not have length 12 or its values are not each of 0..11 once; it succeeds
\* on every permutation of {0..11}; a failed construction builds no matrix.
C5_ConstructFailsIffInvalid ==
    call.op = <<"ToneRow", "__init__">> =>
        /\ err \in {NoError, InvalidRowError}
        /\ err = InvalidRowError <=>
               (Len(call.row) # 12 \/ Range(call.row) # 0..11)
        /\ IsPermutation(call.row) => (err = NoError /\ Constructed)
        /\ err # NoError => ~Constructed
        /\ err = NoError => Constructed

\* C5 witness: construction was refused for an array of 13 entries that holds
\* every pitch class (only its length is wrong)
C5_Witness ==
    /\ call.op = <<"ToneRow", "__init__">>
    /\ err = InvalidRowError
    /\ Len(call.row) = 13
    /\ Range(call.row) = 0..11
    /\ ~Constructed

\* C6: for a valid row and an interval in [-11,11], transpose_row returns the
\* row whose j-th element is (row[j] + interval) mod 12; the result is a valid
\* tone row, and interval 0 returns the same values.
C6_TransposeAddsIntervalMod12 ==
    (/\ call.op = <<"ToneRow", "transpose_row">>
     /\ IsPermutation(call.row)
     /\ call.interval \in (0 - 11)..11) =>
        /\ err = NoError
        /\ Len(ret) = 12
        /\ \A j \in 1..12 : ret[j] = (call.row[j] + call.interval) % 12
        /\ IsPermutation(ret)
        /\ call.interval = 0 => ret = call.row

\* C6 witness: a row starting on 4 was transposed by -11 and now starts on 5
C6_Witness ==
    /\ call.op = <<"ToneRow", "transpose_row">>
    /\ call.interval = 0 - 11
    /\ err = NoError
    /\ call.row[1] = 4
    /\ ret[1] = 5

\* C7: transpose_row raises the invalid-row error when the row is invalid, the
\* range error when the row is valid and the interval is below -11 or above 11
\* (-12 and 12 fail, -11, 0 and 11 do not); the row check comes first when both
\* hold, and a failed call leaves the caller's array as it was.
C7_TransposeErrors ==
    call.op = <<"ToneRow", "transpose_row">> =>
        LET bad_row == ~IsPermutation(call.row)
            bad_interval == call.interval < 0 - 11 \/ call.interval > 11
        IN  /\ bad_row => err = InvalidRowError
            /\ (~bad_row /\ bad_interval) => err = RangeError
            /\ (~bad_row /\ ~bad_interval) => err = NoError
            /\ (~bad_row /\ call.interval \in {0 - 12, 12}) => err = RangeError
            /\ (~bad_row /\ call.interval \in {0 - 11, 0, 11}) => err = NoError
            /\ err # NoError => (arr = call.row /\ ret = <<>>)

\* C7 witness: an invalid row together with interval 12 raised the invalid-row
\* error and left the array alone
C7_Witness ==
    /\ call.op = <<"ToneRow", "transpose_row">>
    /\ ~IsPermutation(call.row)
    /\ call.interval = 12
    /\ err = InvalidRowError
    /\ arr = call.row

\* ------------------------------------------- candidate forms of the claims
Kinds == {"P", "R", "I", "RI"}

Prefix(kind) ==
    CASE kind = "P" -> <<"P">>
      [] kind = "R" -> <<"R">>
      [] kind = "I" -> <<"I">>
      [] kind = "RI" -> <<"R", "I">>

KindName(kind) ==
    CASE kind = "P" -> "prime"
      [] kind = "R" -> "retrograde"
      [] kind = "I" -> "inversion"
      [] kind = "RI" -> "retrograde_inversion"

\* the i-th candidate of a kind: matrix row, reversed row, column, reversed column
Candidate(kind, i) ==
    CASE kind = "P" -> matrix[i]
      [] kind = "R" -> [k \in 1..12 |-> matrix[i][13 - k]]
      [] kind = "I" -> [k \in 1..12 |-> matrix[k][i]]
      [] kind = "RI" -> [k \in 1..12 |-> matrix[13 - k][i]]

\* level of the i-th candidate: its first note above the first note of the
\* kind's level-0 form (P0, R0, I0, RI0)
CandidateLevel(kind, i) == (Candidate(kind, i)[1] - Candidate(kind, 1)[1] + 12) % 12

\* the label text kind + decimal level, e.g. <<"R", "I", "1", "1">> for RI11
LevelDigits ==
    <<<<"0">>, <<"1">>, <<"2">>, <<"3">>, <<"4">>, <<"5">>, <<"6">>, <<"7">>,
      <<"8">>, <<"9">>, <<"1", "0">>, <<"1", "1">>>>

LabelOf(kind, level) == Prefix(kind) \o LevelDigits[level + 1]

\* consecutive segments of a form, each as a set
Segments(form, size) ==
    [k \in 1..(12 \div size) |-> {form[j] : j \in ((k - 1) * size + 1)..(k * size)}]

\* two lists of sets are the same unordered collection
SameCollection(a, b) ==
    /\ Len(a) = Len(b)
    /\ \E sigma \in Permutations(1..Len(a)) : \A k \in 1..Len(a) : a[sigma[k]] = b[k]

\* C8: for segment sizes 4 and 3 and each kind, a candidate passes the match
\* test iff its segments, as an unordered collection of sets, are P0's
\* segments; the greedy find-and-remove procedure decides exactly that, and a
\* detector emits a candidate's label iff the candidate passes (and, for P and
\* R, its level is not 0).
C8_MatchIsCollectionEquality ==
    Constructed =>
        \A kind \in Kinds : \A i \in 1..12 :
            LET same(size) ==
                    SameCollection(Segments(Candidate(kind, i), size),
                                   Segments(matrix[1], size))
                emitted(size) ==
                    same(size) /\ (kind \in {"P", "R"} => CandidateLevel(kind, i) # 0)
                label == LabelOf(kind, CandidateLevel(kind, i))
            IN  /\ Tetrachords_match(Candidate(kind, i), matrix[1]) <=> same(4)
                /\ Trichords_match(Candidate(kind, i), matrix[1]) <=> same(3)
                /\ call.op = <<"Tetrachords", KindName(kind)>> =>
                       (label \in Range(ret) <=> emitted(4))
                /\ call.op = <<"Trichords", KindName(kind)>> =>
                       (label \in Range(ret) <=> emitted(3))

\* C8 witness: the trichordal prime detector emitted the label of a candidate
\* whose trichords are P0's trichords in another order
C8_Witness ==
    /\ Constructed
    /\ call.op = <<"Trichords", "prime">>
    /\ \E i \in 2..12 :
        /\ LabelOf("P", CandidateLevel("P", i)) \in Range(ret)
        /\ Segments(matrix[i], 3) # Segments(matrix[1], 3)
        /\ Segments(matrix[i], 3)[1] = Segments(matrix[1], 3)[4]

\* C9: at segment size 6 each detector emits the label of a candidate iff the
\* candidate's first six notes are disjoint from P0's first six notes and the
\* candidate's level is not 0, and it emits nothing else.
C9_HexachordDisjointness ==
    Constructed =>
        \A kind \in Kinds :
            call.op = <<"Hexachords", KindName(kind)>> =>
                LET passes(i) ==
                        /\ {Candidate(kind, i)[j] : j \in 1..6}
                               \cap {matrix[1][j] : j \in 1..6} = {}
                        /\ CandidateLevel(kind, i) # 0
                    label(i) == LabelOf(kind, CandidateLevel(kind, i))
                IN  /\ \A i \in 1..12 : label(i) \in Range(ret) <=> passes(i)
                    /\ \A k \in 1..Len(ret) :
                           \E i \in 1..12 : passes(i) /\ ret[k] = label(i)

\* C9 witness: the hexachordal retrograde detector emitted two labels, R8 then R4
C9_Witness ==
    /\ Constructed
    /\ call.op = <<"Hexachords", "retrograde">>
    /\ ret = <<<<"R", "8">>, <<"R", "4">>>>

DetectorClasses == {"Hexachords", "Tetrachords", "Trichords"}

\* C10: P0 and R0 are never in the hexachordal, tetrachordal or trichordal
\* output, and I0 and RI0 are never in the hexachordal output.
C10_Level0Excluded ==
    Constructed =>
        /\ call.op[1] \in DetectorClasses =>
               /\ <<"P", "0">> \notin Range(ret)
               /\ <<"R", "0">> \notin Range(ret)
        /\ call.op[1] = "Hexachords" =>
               /\ <<"I", "0">> \notin Range(ret)
               /\ <<"R", "I", "0">> \notin Range(ret)

\* C10 witness: all_hexachordal_combinatorials has returned for a row whose
\* RI0 and R0 both have a first hexachord disjoint from P0's, so that only the
\* level-0 skip keeps RI0 and R0 out of the output
C10_Witness ==
    /\ Constructed
    /\ call.op = <<"Hexachords", "all">>
    /\ <<"R", "I", "0">> \notin Range(ret)
    /\ {matrix[13 - k][1] : k \in 1..6} \cap {matrix[1][j] : j \in 1..6} = {}
    /\ {matrix[1][13 - k] : k \in 1..6} \cap {matrix[1][j] : j \in 1..6} = {}

\* C11: at segment sizes 4 and 3 level 0 is not filtered for I and RI: I0 is
\* in the inversion output iff matrix column 0 passes the match test against
\* P0, and RI0 is in the retrograde-inversion output iff reversed column 0
\* passes it.
C11_InversionLevel0NotFiltered ==
    Constructed =>
        LET passes(kind, size) ==
                SameCollection(Segments(Candidate(kind, 1), size),
                               Segments(matrix[1], size))
        IN  /\ call.op = <<"Tetrachords", "inversion">> =>
                   (<<"I", "0">> \in Range(ret) <=> passes("I", 4))
            /\ call.op = <<"Trichords", "inversion">> =>
                   (<<"I", "0">> \in Range(ret) <=> passes("I", 3))
            /\ call.op = <<"Tetrachords", "retrograde_inversion">> =>
                   (<<"R", "I", "0">> \in Range(ret) <=> passes("RI", 4))
            /\ call.op = <<"Trichords", "retrograde_inversion">> =>
                   (<<"R", "I", "0">> \in Range(ret) <=> passes("RI", 3))

\* C11 witness: the tetrachordal inversion detector returned I0 for a row
\* whose column 0 has P0's tetrachords
C11_Witness ==
    /\ Constructed
    /\ call.op = <<"Tetrachords", "inversion">>
    /\ <<"I", "0">> \in Range(ret)
    /\ Tetrachords_match(inversion(matrix), prime_row(matrix))

\* C12: for the identity row [0,1,...,11] the hexachordal detectors return
\* exactly prime = [P6], retrograde = [], inversion = [I11] and
\* retrograde inversion = [RI5].
C12_IdentityHexachords ==
    (Constructed /\ prime_row(matrix) = Identity) =>
        /\ call.op = <<"Hexachords", "prime">> => ret = <<<<"P", "6">>>>
        /\ call.op = <<"Hexachords", "retrograde">> => ret = <<>>
        /\ call.op = <<"Hexachords", "inversion">> => ret = <<<<"I", "1", "1">>>>
        /\ call.op = <<"Hexachords", "retrograde_inversion">> =>
               ret = <<<<"R", "I", "5">>>>

\* C12 witness: the hexachordal retrograde-inversion detector returned for the
\* identity row
C12_Witness ==
    /\ Constructed
    /\ prime_row(matrix) = Identity
    /\ call.op = <<"Hexachords", "retrograde_inversion">>
    /\ Len(ret) = 1

\* C13: for the identity row [0,1,...,11] all_tetrachordal_combinatorials
\* returns exactly the ten labels P4, P8, R4, R8, I3, I7, I11, RI3, RI7, RI11,
\* each once.
C13_IdentityTetrachords ==
    (/\ Constructed
     /\ prime_row(matrix) = Identity
     /\ call.op = <<"Tetrachords", "all">>) =>
        /\ Len(ret) = 10
        /\ Range(ret) = {<<"P", "4">>, <<"P", "8">>, <<"R", "4">>, <<"R", "8">>,
                         <<"I", "3">>, <<"I", "7">>, <<"I", "1", "1">>,
                         <<"R", "I", "3">>, <<"R", "I", "7">>, <<"R", "I", "1", "1">>}
        /\ \A a, b \in 1..Len(ret) : ret[a] = ret[b] => a = b

\* C13 witness: all_tetrachordal_combinatorials returned for the identity row,
\* with R8 among the labels
C13_Witness ==
    /\ Constructed
    /\ prime_row(matrix) = Identity
    /\ call.op = <<"Tetrachords", "all">>
    /\ <<"R", "8">> \in Range(ret)

\* C14: for the identity row [0,1,...,11] the trichordal detectors return
\* exactly prime = {P3, P6, P9}, retrograde = {R3, R6, R9}, inversion =
\* {I2, I5, I8, I11} and retrograde inversion = {RI2, RI5, RI8, RI11}.
C14_IdentityTrichords ==
    (Constructed /\ prime_row(matrix) = Identity) =>
        /\ call.op = <<"Trichords", "prime">> =>
               /\ Range(ret) = {<<"P", "3">>, <<"P", "6">>, <<"P", "9">>}
               /\ Len(ret) = 3
        /\ call.op = <<"Trichords", "retrograde">> =>
               /\ Range(ret) = {<<"R", "3">>, <<"R", "6">>, <<"R", "9">>}
               /\ Len(ret) = 3
        /\ call.op = <<"Trichords", "inversion">> =>
               /\ Range(ret) = {<<"I", "2">>, <<"I", "5">>, <<"I", "8">>,
                                <<"I", "1", "1">>}
               /\ Len(ret) = 4
        /\ call.op = <<"Trichords", "retrograde_inversion">> =>
               /\ Range(ret) = {<<"R", "I", "2">>, <<"R", "I", "5">>,
                                <<"R", "I", "8">>, <<"R", "I", "1", "1">>}
               /\ Len(ret) = 4

\* C14 witness: the trichordal inversion detector returned for the identity
\* row, with I11 among the labels
C14_Witness ==
    /\ Constructed
    /\ prime_row(matrix) = Identity
    /\ call.op = <<"Trichords", "inversion">>
    /\ <<"I", "1", "1">> \in Range(ret)

\* C15 as claimed: for the identity row [0,1,...,11] the I0 form (matrix
\* column 0) matches P0's trichord partition, and I0 is absent from the
\* trichordal inversion output (only because level 0 is excluded).
C15_IdentityI0MatchesButExcluded ==
    (Constructed /\ prime_row(matrix) = Identity) =>
        /\ Trichords_match(inversion(matrix), prime_row(matrix))
        /\ call.op = <<"Trichords", "inversion">> => <<"I", "0">> \notin Range(ret)

\* C15 amended: for the identity row I0 = [0,11,10,...,1] has the trichords
\* {0,10,11}, {7,8,9}, {4,5,6}, {1,2,3}, none of them a trichord of P0, so I0
\* fails the match test; that failure, not a level-0 exclusion, keeps I0 out of
\* the trichordal inversion output (the detector emits I0 whenever column 0
\* passes the test).
C15_IdentityI0FailsMatch ==
    Constructed =>
        /\ prime_row(matrix) = Identity =>
               /\ inversion(matrix) = <<0, 11, 10, 9, 8, 7, 6, 5, 4, 3, 2, 1>>
               /\ Segments(inversion(matrix), 3)
                      = <<{0, 10, 11}, {7, 8, 9}, {4, 5, 6}, {1, 2, 3}>>
               /\ \A k \in 1..4 :
                      ~ListHas(Segments(prime_row(matrix), 3),
                               Segments(inversion(matrix), 3)[k])
               /\ ~Trichords_match(inversion(matrix), prime_row(matrix))
               /\ call.op = <<"Trichords", "inversion">> =>
                      <<"I", "0">> \notin Range(ret)
        /\ call.op = <<"Trichords", "inversion">> =>
               (<<"I", "0">> \in Range(ret)
                    <=> Trichords_match(inversion(matrix), prime_row(matrix)))

\* C15 witness: the trichordal inversion detector returned for the identity
\* row without I0, whose column 0 fails the match test
C15_Witness ==
    /\ Constructed
    /\ prime_row(matrix) = Identity
    /\ call.op = <<"Trichords", "inversion">>
    /\ <<"I", "0">> \notin Range(ret)
    /\ ~Trichords_match(inversion(matrix), prime_row(matrix))

\* levels a label of a kind may carry: 0..11 for P, I and RI, 1..11 for R
AllowedLevels(kind) == IF kind = "R" THEN 1..11 ELSE 0..11

\* the well-formed labels of a kind
LabelsOfKind(kind) == {LabelOf(kind, level) : level \in AllowedLevels(kind)}

\* C16: every label emitted by any of the twelve detector functions is a kind
\* prefix P, R, I or RI followed by the decimal level without leading zero or
\* separator, with level in 0..11 for P, I and RI and in 1..11 for R; each
\* function emits only labels of its own kind.
C16_LabelFormat ==
    (Constructed /\ call.op[1] \in DetectorClasses) =>
        /\ \A kind \in Kinds :
               call.op[2] = KindName(kind) =>
                   \A k \in 1..Len(ret) : ret[k] \in LabelsOfKind(kind)
        /\ \A k \in 1..Len(ret) :
               /\ \E kind \in Kinds : ret[k] \in LabelsOfKind(kind)
               /\ Len(ret[k]) \in 2..4
               /\ \A c \in 1..Len(ret[k]) :
                      ret[k][c] \in {"P", "R", "I"} \cup Range(DigitChars)

\* C16 witness: a retrograde-inversion detector returned both a one-digit and
\* a two-digit label
C16_Witness ==
    /\ Constructed
    /\ call.op[1] \in DetectorClasses
    /\ call.op[2] = "retrograde_inversion"
    /\ \E a, b \in 1..Len(ret) : Len(ret[a]) = 3 /\ Len(ret[b]) = 4

\* reading a label back: its kind is the leading letters, its level the value
\* of the decimal digits that follow
ParseKind(label) ==
    IF Len(label) >= 2 /\ label[1] = "R" /\ label[2] = "I" THEN "RI" ELSE label[1]

DigitValue(c) == CHOOSE d \in 0..9 : DigitChars[d + 1] = c

RECURSIVE DigitsValue(_)
DigitsValue(digits) ==
    IF digits = <<>>
    THEN 0
    ELSE 10 * DigitsValue(SubSeq(digits, 1, Len(digits) - 1))
             + DigitValue(digits[Len(digits)])

ParseLevel(label) ==
    DigitsValue(SubSeq(label, Len(Prefix(ParseKind(label))) + 1, Len(label)))

\* a form moved up by k semitones
TransposedUp(form, k) == [j \in 1..Len(form) |-> (form[j] + k) % 12]

\* the detection test of a detector class, applied to a form
PassesTest(class, form) ==
    CASE class = "Hexachords" ->
             {form[j] : j \in 1..6} \cap {matrix[1][j] : j \in 1..6} = {}
      [] class = "Tetrachords" ->
             SameCollection(Segments(form, 4), Segments(matrix[1], 4))
      [] class = "Trichords" ->
             SameCollection(Segments(form, 3), Segments(matrix[1], 3))

\* C17: round trip of labels: for every emitted label, of kind K and level k,
\* moving the reference form K0 (P0, R0, I0 or RI0) up by k semitones mod 12
\* gives exactly the candidate form that produced the label, and that form
\* passes the detection test of its segment size.
C17_LabelRoundTrip ==
    (Constructed /\ call.op[1] \in DetectorClasses) =>
        \A k \in 1..Len(ret) :
            LET kind == ParseKind(ret[k])
                level == ParseLevel(ret[k])
                rebuilt == TransposedUp(Candidate(kind, 1), level)
            IN  /\ kind \in Kinds /\ level \in 0..11
                /\ LabelOf(kind, level) = ret[k]
                /\ \E i \in 1..12 :
                       /\ Candidate(kind, i) = rebuilt
                       /\ CandidateLevel(kind, i) = level
                       /\ \A h \in 1..12 :
                              CandidateLevel(kind, h) = level => h = i
                /\ PassesTest(call.op[1], rebuilt)

\* C17 witness: a tetrachordal detector returned RI11 for a row that starts on 6
C17_Witness ==
    /\ Constructed
    /\ call.op = <<"Tetrachords", "retrograde_inversion">>
    /\ matrix[1][1] = 6
    /\ <<"R", "I", "1", "1">> \in Range(ret)

RECURSIVE Factorial(_)
Factorial(n) == IF n = 0 THEN 1 ELSE n * Factorial(n - 1)

\* the number of rows of the enumeration that come before a row in
\* lexicographic order: each entry counts, with the weight of its position, the
\* smaller entries that stand after it
Rank(row) ==
    LET smaller_after(j) == Cardinality({h \in (j + 1)..Len(row) : row[h] < row[j]})
        RECURSIVE weighted(_)
        weighted(j) ==
            IF j > Len(row) THEN 0
            ELSE smaller_after(j) * Factorial(Len(row) - j) + weighted(j + 1)
    IN  weighted(1)

\* C18, the part true in every state: every yielded row is a valid tone row
\* starting on 0; the row of next() number k is the row with k - 1 rows before
\* it in lexicographic order, so that no row comes twice and none is left out;
\* at most 11! rows are yielded, and the generator is exhausted only after 11!
\* rows.
C18_EnumerationSafe ==
    /\ gen.count <= Factorial(11)
    /\ gen.done => gen.count = Factorial(11)
    /\ \A k \in 1..Len(yielded) :
           /\ IsPermutation(yielded[k])
           /\ yielded[k][1] = 0
           /\ Rank(yielded[k]) = gen.count - (Len(yielded) - k) - 1
    /\ \A a, b \in 1..Len(yielded) : yielded[a] = yielded[b] => a = b

\* every next() either yields one more row or finds the generator exhausted
C18_EachNextCounts ==
    gen' # gen =>
        \/ ~gen.created /\ gen'.created /\ gen'.count = 0
        \/ gen'.count = gen.count + 1 /\ ~gen'.done /\ Len(yielded') = Len(yielded) + 1
        \/ gen'.count = gen.count /\ gen'.done /\ gen.count = Factorial(11)

\* C18: tonerows_starting_with_zero_iterator terminates after yielding exactly
\* 11! rows; every yielded row is a valid tone row starting on 0, no row is
\* yielded twice, and every permutation of {1..11} occurs in positions 1..11
\* of some yielded row: the k-th row is the k-th row of the lexicographic order
\* for every k up to 11!, each next() yields one row more, and the next() after
\* row 11! finds the generator exhausted.
C18_EnumeratesEveryRowOnce ==
    /\ [](C18_EnumerationSafe)
    /\ [][C18_EachNextCounts]_vars
    /\ <>(gen.done \/ Len(yielded) > MaxNexts)

\* C18 witness: the generator is exhausted after yielding the descending row
\* as row number 11!
C18_Witness ==
    /\ gen.done
    /\ err = StopIteration
    /\ gen.count = Factorial(11)
    /\ Len(yielded) > 1
    /\ yielded[Len(yielded)] = <<0, 11, 10, 9, 8, 7, 6, 5, 4, 3, 2, 1>>

\* the words of a string: the pieces between its spaces (a leading, trailing
\* or doubled space gives an empty word); the empty string has no words
RECURSIVE Words(_)
Words(str) ==
    IF str = <<>>
    THEN <<>>
    ELSE IF \A i \in 1..Len(str) : str[i] # " "
    THEN <<str>>
    ELSE LET sp == CHOOSE i \in 1..Len(str) :
                       str[i] = " " /\ \A h \in 1..(i - 1) : str[h] # " "
             rest == SubSeq(str, sp + 1, Len(str))
         IN  <<SubSeq(str, 1, sp - 1)>> \o (IF rest = <<>> THEN <<<<>>>> ELSE Words(rest))

\* code point of a character of a label
CodePoint(c) ==
    CASE c = "0" -> 48 [] c = "1" -> 49 [] c = "2" -> 50 [] c = "3" -> 51
      [] c = "4" -> 52 [] c = "5" -> 53 [] c = "6" -> 54 [] c = "7" -> 55
      [] c = "8" -> 56 [] c = "9" -> 57 [] c = "I" -> 73 [] c = "P" -> 80
      [] c = "R" -> 82

\* a comes strictly before b in lexicographic string order
LexBefore(a, b) ==
    \E k \in 1..(Len(a) + 1) :
        /\ \A h \in 1..(k - 1) : h <= Len(b) /\ a[h] = b[h]
        /\ \/ k = Len(a) + 1 /\ Len(b) >= k
           \/ k <= Len(a) /\ k <= Len(b) /\ CodePoint(a[k]) < CodePoint(b[k])

\* the assembled string holds exactly the given labels, in ascending
\* lexicographic order, separated by single spaces
IsSortedJoinOf(str, labels) ==
    LET words == Words(str)
    IN  /\ Len(words) = Len(labels)
        /\ \A k \in 1..Len(words) : words[k] # <<>>
        /\ \A label \in Range(labels) \cup Range(words) :
               Cardinality({k \in 1..Len(words) : words[k] = label})
                   = Cardinality({k \in 1..Len(labels) : labels[k] = label})
        /\ \A k \in 1..(Len(words) - 1) : LexBefore(words[k], words[k + 1])
        /\ \A a, b \in 1..Len(words) :
               (words[a] = <<"I", "1", "1">> /\ words[b] = <<"I", "3">>) => a < b

\* C19: each assembled combinatorial string holds exactly the labels returned
\* by the corresponding all_* detector (P, R, I and RI outputs together, none
\* dropped or added), joined by single spaces in ascending lexicographic
\* string order (I11 before I3), and the prime-row string is the twelve pitch
\* classes of P0 in row order joined by single spaces.
C19_AssembledStrings ==
    Constructed =>
        /\ call.op = <<"CombinatorialTableEntry", "hexachordal_combinatorials_string">> =>
               IsSortedJoinOf(ret, all_hexachordal_combinatorials(matrix))
        /\ call.op = <<"CombinatorialTableEntry", "tetrachordal_combinatorials_string">> =>
               IsSortedJoinOf(ret, all_tetrachordal_combinatorials(matrix))
        /\ call.op = <<"CombinatorialTableEntry", "trichordal_combinatorials_string">> =>
               IsSortedJoinOf(ret, all_trichordal_combinatorials(matrix))
        /\ call.op = <<"CombinatorialTableEntry", "prime_row_string">> =>
               Words(ret) = [k \in 1..12 |-> LevelDigits[matrix[1][k] + 1]]

\* C19 witness: the tetrachordal string of the identity row was assembled as
\* "I11 I3 I7 P4 P8 R4 R8 RI11 RI3 RI7"
C19_Witness ==
    /\ Constructed
    /\ call.op = <<"CombinatorialTableEntry", "tetrachordal_combinatorials_string">>
    /\ prime_row(matrix) = Identity
    /\ Words(ret) = <<<<"I", "1", "1">>, <<"I", "3">>, <<"I", "7">>,
                       <<"P", "4">>, <<"P", "8">>, <<"R", "4">>, <<"R", "8">>,
                       <<"R", "I", "1", "1">>, <<"R", "I", "3">>, <<"R", "I", "7">>>>
    /\ Len(ret) = 34

\* the calls C20 is about: the four derived-row accessors, the twelve
\* detectors with the three all_* functions, and the assembly properties
ReadOnlyCalls ==
    {<<"ToneRow", name>> :
         name \in {"prime_row", "inversion", "retrograde", "retrograde_inversion"}}
    \cup {<<class, name>> :
              class \in DetectorClasses,
              name \in {"prime", "retrograde", "inversion", "retrograde_inversion", "all"}}
    \cup {<<"CombinatorialTableEntry", name>> :
              name \in {"prime_row_string", "hexachordal_combinatorials_string",
                        "tetrachordal_combinatorials_string",
                        "trichordal_combinatorials_string"}}

\* in every state the stored matrix is the one built at construction
C20_MatrixIsTheConstructedOne ==
    Constructed => matrix = twelvetone_matrix(arr)

\* a read-only call leaves the matrix as it was, and a call repeated right
\* after itself returns the same value
C20_CallKeepsMatrix ==
    (Constructed /\ call'.op \in ReadOnlyCalls) =>
        /\ matrix' = matrix
        /\ call'.op = call.op => ret' = ret

\* C20: after a ToneRow is constructed its matrix is unchanged by any sequence
\* of calls to prime_row, inversion, retrograde, retrograde_inversion, the
\* detector functions and the result-assembly properties, in any order and any
\* number of times; repeating a detector call returns the same labels.
C20_MatrixUnchangedByCalls ==
    [](C20_MatrixIsTheConstructedOne) /\ [][C20_CallKeepsMatrix]_vars

\* C20 witness: after construction from Webern's row and further calls, the
\* trichordal string was assembled and the matrix is still the constructed one
C20_Witness ==
    /\ Constructed
    /\ arr = Webern
    /\ call.op = <<"CombinatorialTableEntry", "trichordal_combinatorials_string">>
    /\ matrix = twelvetone_matrix(Webern)
    /\ matrix[1] = Webern

\* C21 as claimed: no read accessor of ToneRow exposes the backing storage:
\* after a caller writes into any array returned by prime_row, inversion,
\* retrograde, retrograde_inversion or matrix, the ToneRow still holds the
\* matrix built at construction, so later reads and detector results are the
\* same as before the write.
C21_AccessorsHideStorage ==
    Constructed =>
        /\ matrix = twelvetone_matrix(arr)
        /\ call.op = <<"ToneRow", "prime_row">> => ret = arr

\* the part of C21 that holds: a write into an array returned by prime_row,
\* inversion, retrograde or retrograde_inversion leaves the matrix as it was
C21_CopiesAreSafe ==
    [][(Constructed /\ call'.op = <<"caller", "setitem">>
            /\ call.op # <<"ToneRow", "matrix">>) => matrix' = matrix]_vars

\* the write that breaks C21: the caller wrote into the array matrix()
\* returned and the ToneRow's row 0 is no longer the row it was built from
C21_StorageWritten ==
    /\ Constructed
    /\ call.op = <<"caller", "setitem">>
    /\ matrix[1] # arr
    /\ ret = matrix

\* C22: for every valid row and each kind, the 12 candidates scanned (rows,
\* reversed rows, columns, reversed columns) have pairwise distinct levels
\* covering 0..11, so detection looks at each of the 48 (kind, level) forms
\* exactly once, never fails, and never emits the same label twice.
C22_LevelsDistinctAndComplete ==
    Constructed =>
        /\ \A kind \in Kinds :
               /\ {CandidateLevel(kind, i) : i \in 1..12} = 0..11
               /\ \A i, h \in 1..12 :
                      CandidateLevel(kind, i) = CandidateLevel(kind, h) => i = h
        /\ call.op[1] \in DetectorClasses =>
               /\ err = NoError
               /\ \A a, b \in 1..Len(ret) : ret[a] = ret[b] => a = b
               /\ Len(ret) <= (IF call.op[2] = "all" THEN 48 ELSE 12)

\* C22 witness: all_trichordal_combinatorials returned at least fourteen
\* labels, none twice
C22_Witness ==
    /\ Constructed
    /\ call.op = <<"Trichords", "all">>
    /\ Len(ret) >= 14
    /\ Cardinality(Range(ret)) = Len(ret)

\* the first six notes of a form share no note with P0's first six notes
PassesDisjointness(form) ==
    {form[j] : j \in 1..6} \cap {matrix[1][j] : j \in 1..6} = {}

\* the two hexachords of a form are, as an unordered collection, P0's
HexachordsMatch(form) ==
    SameCollection(Segments(form, 6), Segments(matrix[1], 6))

\* C23 as claimed: at segment size 6 the disjointness test is weaker than the
\* collection match: every candidate whose two hexachords equal P0's two
\* hexachords as an unordered collection passes the disjointness test.
C23_MatchImpliesDisjoint ==
    Constructed =>
        \A kind \in Kinds : \A i \in 1..12 :
            HexachordsMatch(Candidate(kind, i)) => PassesDisjointness(Candidate(kind, i))

\* C23 amended: the disjointness test is the stronger one: a candidate passes
\* it iff its first hexachord is P0's second and its second is P0's first, so
\* every candidate that passes has P0's two hexachords as an unordered
\* collection, while a matching candidate whose first hexachord is P0's first
\* (P0 itself, for one) fails; every label a hexachordal detector emits
\* belongs to a candidate with P0's hexachords exchanged.
C23_DisjointImpliesMatch ==
    Constructed =>
        \A kind \in Kinds : \A i \in 1..12 :
            LET form == Candidate(kind, i)
                exchanged == /\ Segments(form, 6)[1] = Segments(matrix[1], 6)[2]
                             /\ Segments(form, 6)[2] = Segments(matrix[1], 6)[1]
            IN  /\ PassesDisjointness(form) <=> exchanged
                /\ PassesDisjointness(form) => HexachordsMatch(form)
                /\ (HexachordsMatch(form) /\ ~PassesDisjointness(form))
                       <=> Segments(form, 6) = Segments(matrix[1], 6)
                /\ (/\ call.op = <<"Hexachords", KindName(kind)>>
                    /\ LabelOf(kind, CandidateLevel(kind, i)) \in Range(ret))
                       => exchanged

\* C23 witness: the hexachordal prime detector returned for a row that has a
\* transposition with P0's hexachords in the same order (matching, not disjoint)
\* and one with them exchanged (disjoint, emitted)
C23_Witness ==
    /\ Constructed
    /\ call.op = <<"Hexachords", "prime">>
    /\ \E i \in 2..12 :
           /\ Segments(matrix[i], 6) = Segments(matrix[1], 6)
           /\ LabelOf("P", CandidateLevel("P", i)) \notin Range(ret)
    /\ \E i \in 2..12 :
           /\ PassesDisjointness(matrix[i])
           /\ LabelOf("P", CandidateLevel("P", i)) \in Range(ret)

\* the rows of a generator, in the order yielded: row a comes before row b in
\* lexicographic order (equal-length sequences of pitch classes)
RowBefore(a, b) ==
    \E j \in 1..Len(a) :
        /\ a[j] < b[j]
        /\ \A h \in 1..(j - 1) : a[h] = b[h]

\* the first and the second row of the enumeration
FirstRow == <<0, 1, 2, 3, 4, 5, 6, 7, 8, 9, 10, 11>>
SecondRow == <<0, 1, 2, 3, 4, 5, 6, 7, 8, 9, 11, 10>>

\* each row of a sequence comes before the next in lexicographic order
Ascends(rows) ==
    \A k \in 1..(Len(rows) - 1) : RowBefore(rows[k], rows[k + 1])

\* a sequence of yielded rows starts the enumeration and ascends
StartsAndAscends(rows) ==
    /\ Len(rows) >= 1 => rows[1] = FirstRow
    /\ Len(rows) >= 2 => rows[2] = SecondRow
    /\ Ascends(rows)

\* C24: the enumerator yields rows in lexicographic order: the first row is
\* [0,1,...,11], the second [0,1,...,9,11,10], and each yielded row is
\* lexicographically greater than the one before it, wherever the generator
\* stands; a newly created iterator starts again from [0,1,...,11] whatever
\* the progress of another iterator, and the k-th row of either generator is
\* the k-th row of the other.
C24_LexicographicAndRestartable ==
    /\ Ascends(yielded)
    /\ gen.count = Len(yielded) => StartsAndAscends(yielded)
    /\ StartsAndAscends(other.yielded)
    /\ \A k \in 1..Len(other.yielded) :
           (gen.count = Len(yielded) /\ k <= Len(yielded)) =>
               other.yielded[k] = yielded[k]
    /\ (other.created /\ ~other.started) => other.yielded = <<>>

\* C24 witness: the first generator is far into the enumeration (its last
\* three rows start 0, 11) when the second generator, made anew after it had
\* already run, yields its second row
C24_Witness ==
    /\ Len(yielded) >= 3
    /\ \A k \in 1..Len(yielded) : yielded[k][2] = 11
    /\ call.op = <<"other iterator", "next">>
    /\ other.yielded = <<FirstRow, SecondRow>>

\* C25 as claimed: transpose_row does not modify its argument: after a
\* successful call with an interval in [-11,11] the caller's array holds the
\* values it held on entry.
C25_TransposeLeavesArgument ==
    (/\ call.op = <<"ToneRow", "transpose_row">>
     /\ err = NoError) => arr = call.row

\* C25 failing case: a successful transposition by 3 of a row starting on 0
\* left the caller's array starting on 3, equal to the returned row
C25_ArgumentTransposed ==
    /\ call.op = <<"ToneRow", "transpose_row">>
    /\ err = NoError
    /\ call.interval = 3
    /\ call.row[1] = 0
    /\ arr[1] = 3
    /\ arr = ret

\* the levels of the labels of one kind in a list of labels
LevelsOf(kind, labels) ==
    {ParseLevel(labels[k]) : k \in {h \in 1..Len(labels) : ParseKind(labels[h]) = kind}}

\* C26: for segment sizes 4 and 3 and every valid row, the levels of the
\* retrograde output are the levels of the prime output and the levels of the
\* retrograde-inversion output are the levels of the inversion output: in the
\* assembled all_* list, and for each detector called on its own against the
\* output of its counterpart.
C26_ReversalKeepsLevels ==
    (Constructed /\ call.op[1] \in {"Tetrachords", "Trichords"}) =>
        LET tet == call.op[1] = "Tetrachords"
            P == IF tet THEN Tetrachords_prime_combinatorials(matrix)
                 ELSE Trichords_prime_combinatorials(matrix)
            R == IF tet THEN Tetrachords_retrograde_combinatorials(matrix)
                 ELSE Trichords_retrograde_combinatorials(matrix)
            I == IF tet THEN Tetrachords_inversion_combinatorials(matrix)
                 ELSE Trichords_inversion_combinatorials(matrix)
            RI == IF tet THEN Tetrachords_retrograde_inversion_combinatorials(matrix)
                  ELSE Trichords_retrograde_inversion_combinatorials(matrix)
        IN  /\ call.op[2] = "all" =>
                   /\ LevelsOf("R", ret) = LevelsOf("P", ret)
                   /\ LevelsOf("RI", ret) = LevelsOf("I", ret)
            /\ call.op[2] = "prime" => LevelsOf("P", ret) = LevelsOf("R", R)
            /\ call.op[2] = "retrograde" => LevelsOf("R", ret) = LevelsOf("P", P)
            /\ call.op[2] = "inversion" => LevelsOf("I", ret) = LevelsOf("RI", RI)
            /\ call.op[2] = "retrograde_inversion" =>
                   LevelsOf("RI", ret) = LevelsOf("I", I)

\* C26 witness: the assembled trichordal list of a row not starting on 0 holds
\* prime, retrograde, inversion and retrograde-inversion labels, with inversion
\* levels that are not the prime levels
C26_Witness ==
    /\ Constructed
    /\ call.op = <<"Trichords", "all">>
    /\ matrix[1][1] # 0
    /\ LevelsOf("P", ret) # {}
    /\ LevelsOf("RI", ret) # {}
    /\ LevelsOf("I", ret) # LevelsOf("P", ret)

\* ------------------------------------------------ claims about the population
\* the number of rows the call committed before the first state (full batches)
CommittedBefore ==
    IF db.start = 0 THEN 0 ELSE db.start - (db.start % db.batchSize)

\* the number of rows of the table
TableSize == CommittedBefore + Len(db.table)

\* the values of total_processed at which a commit is due inside the loop
\* after the first state: every multiple of size above start and up to total
FullBatches(size, start, total) ==
    [k \in 1..((total \div size) - (start \div size)) |->
        ((start \div size) + k) * size]

\* C27: in populate_combinatorials_table with batchSize >= 1, a commit is
\* issued exactly after every batchSize-th insert; after each loop iteration
\* fewer than batchSize rows are inserted but uncommitted; and when the call
\* returns normally every inserted row has been committed.
C27_BatchCommits ==
    /\ db.pc = "loop" =>
           /\ db.commits = FullBatches(db.batchSize, db.start, db.total_processed)
           /\ Len(db.pending) < db.batchSize
           /\ Len(db.pending) = db.batch_count
           /\ Len(db.pending) = db.total_processed % db.batchSize
           /\ TableSize + Len(db.pending) = db.total_processed
    /\ db.pc = "returned" =>
           /\ db.pending = <<>>
           /\ TableSize = db.total_processed
           /\ db.total_processed = db.iteration_range
           /\ db.commits =
                  FullBatches(db.batchSize, db.start, db.total_processed)
                      \o (IF db.total_processed % db.batchSize = 0
                          THEN <<>> ELSE <<db.total_processed>>)

\* C27 witness: a call with batchSize 2 and limit 3 returned after a commit
\* at the second insert and a commit of the part batch at the end
C27_Witness ==
    /\ db.pc = "returned"
    /\ db.batchSize = 2
    /\ db.limitForTesting = 3
    /\ db.commits = <<2, 3>>
    /\ Len(db.table) = 3
    /\ db.start = 0

\* the number of table rows the commits so far account for
CommittedSoFar ==
    IF db.commits = <<>> THEN CommittedBefore ELSE db.commits[Len(db.commits)]

\* C28: if a step of the populate loop raises (insert, commit or iterator
\* exhaustion; row construction cannot raise on an enumerated row), the open
\* transaction is rolled back, the error reaches the caller, and the connection
\* is closed on every path, success or failure (a call that fails before it
\* has a connection has none to roll back or close); the rows committed by
\* earlier batches stay in the table.
C28_FailureRollsBackAndCloses ==
    /\ db.pc = "raised" =>
           /\ db.raised # "none"
           /\ err = db.raised
           /\ db.pending = <<>>
           /\ db.connection \in {"None", "closed"}
           /\ db.connection = "closed" =>
                  /\ db.rollbacks = 1
                  /\ TableSize = CommittedSoFar
                  /\ TableSize <= db.total_processed
           /\ db.connection = "None" => (db.rollbacks = 0 /\ db.total_processed = 0)
    /\ db.pc = "returned" =>
           /\ db.connection = "closed"
           /\ db.rollbacks = 0
           /\ err = NoError
    /\ db.pc \in {"idle", "connect"} => db.connection = "None"
    /\ db.pc = "loop" => db.connection = "open"

\* C28 witness: an insert failed after a batch of two rows was committed and a
\* third row was inserted: the third row is gone, the two rows stay
C28_Witness ==
    /\ db.pc = "raised"
    /\ err = DatabaseError
    /\ db.batchSize = 2
    /\ db.done = 3
    /\ db.start = 0
    /\ Len(db.table) = 2
    /\ db.rollbacks = 1
    /\ db.connection = "closed"

\* the text of a row: its pitch classes in decimal, separated by single spaces
RowText(row) ==
    str_join(<<" ">>, [k \in 1..Len(row) |-> DecimalString(row[k])])

\* the row a text of decimal numbers separated by spaces stands for
ParseRow(text) == [k \in 1..Len(Words(text)) |-> DigitsValue(Words(text)[k])]

\* the rows inserted by the call, committed or not, in insertion order,
\* without those committed before the first state
Inserted == db.table \o db.pending

\* the number of rows of the enumeration
EnumerationSize == Factorial(11)

\* C29: populate_combinatorials_table first drops and recreates the table (no
\* row of an earlier table survives a call that got that far); the rows
\* inserted are the first rows of the enumerator in enumeration order, each
\* once, starting with [0,1,...,11]: row number k of the table is the row with
\* k - 1 rows before it; with limitForTesting = n, 1 <= n <= 11!, a returning
\* call has inserted exactly n rows, with limitForTesting = 0 all 11! rows;
\* with n above 11! the generator is exhausted after 11! inserts and the call
\* fails instead of returning.
C29_InsertsEnumerationPrefix ==
    /\ (db.pc = "raised" /\ ~gen.created) => db.total_processed = 0
    /\ (db.pc # "idle" /\ gen.created) =>
        /\ db.exists
        /\ CommittedBefore + Len(Inserted) <= db.total_processed
        /\ db.pc # "raised" => CommittedBefore + Len(Inserted) = db.total_processed
        /\ db.total_processed <= gen.count
        /\ \A k \in 1..Len(Inserted) :
               /\ IsPermutation(ParseRow(Inserted[k].tone_row))
               /\ Rank(ParseRow(Inserted[k].tone_row)) = CommittedBefore + k - 1
        /\ \A a, b \in 1..Len(Inserted) :
               Inserted[a].tone_row = Inserted[b].tone_row => a = b
        /\ (db.pc = "loop" /\ Inserted # <<>>) =>
               /\ db.total_processed = gen.count
               /\ Inserted[Len(Inserted)] =
                      new_table_entry(twelvetone_matrix(yielded[Len(yielded)]))
               /\ Inserted[Len(Inserted)].tone_row = RowText(yielded[Len(yielded)])
        /\ db.pc = "returned" =>
               /\ TableSize =
                      (IF db.limitForTesting = 0 THEN EnumerationSize
                       ELSE db.limitForTesting)
               /\ db.limitForTesting <= EnumerationSize
        /\ db.limitForTesting > EnumerationSize =>
               /\ db.pc # "returned"
               /\ db.total_processed <= EnumerationSize
               /\ db.raised = StopIteration =>
                      (db.total_processed = EnumerationSize /\ gen.done)
        /\ db.raised = StopIteration => db.limitForTesting > EnumerationSize

\* C29 witness: a call with the default batch size and a limit one above 11!,
\* taken up before its last iteration, committed the last batch with row
\* number 11!, [0,11,10,...,1], and then failed on the exhausted generator
C29_Witness ==
    /\ db.pc = "raised"
    /\ db.raised = StopIteration
    /\ db.limitForTesting = EnumerationSize + 1
    /\ db.total_processed = EnumerationSize
    /\ Len(db.table) = DefaultBatchSize
    /\ TableSize = EnumerationSize
    /\ db.table[Len(db.table)].tone_row
           = RowText(<<0, 11, 10, 9, 8, 7, 6, 5, 4, 3, 2, 1>>)

\* the labels of the candidates of a kind that pass the disjointness test,
\* level 0 included
DisjointLabels(kind) ==
    {LabelOf(kind, CandidateLevel(kind, i)) :
         i \in {h \in 1..12 : PassesDisjointness(Candidate(kind, h))}}

\* C30: under the hexachord disjointness test P0 and I0 never pass (each starts
\* on the row's first note, which is in P0's first hexachord), so the level-0
\* skip of the hexachordal prime and inversion detectors never changes their
\* output: it is the labels of all candidates that pass; R0 always passes, and
\* the retrograde output is the labels of all candidates that pass less R0.
C30_Level0SkipOnlyMattersForR0 ==
    Constructed =>
        /\ ~PassesDisjointness(Candidate("P", 1))
        /\ ~PassesDisjointness(Candidate("I", 1))
        /\ PassesDisjointness(Candidate("R", 1))
        /\ LabelOf("P", 0) \notin DisjointLabels("P")
        /\ LabelOf("I", 0) \notin DisjointLabels("I")
        /\ LabelOf("R", 0) \in DisjointLabels("R")
        /\ call.op = <<"Hexachords", "prime">> => Range(ret) = DisjointLabels("P")
        /\ call.op = <<"Hexachords", "inversion">> => Range(ret) = DisjointLabels("I")
        /\ call.op = <<"Hexachords", "retrograde">> =>
               Range(ret) = DisjointLabels("R") \ {LabelOf("R", 0)}

\* C30 witness: the hexachordal retrograde detector returned, for a row that
\* does not start on 0, a list with a label other than R0's, R0 being the form
\* left out
C30_Witness ==
    /\ Constructed
    /\ call.op = <<"Hexachords", "retrograde">>
    /\ matrix[1][1] # 0
    /\ ret # <<>>
    /\ Range(ret) # DisjointLabels("R")

====
